---------------------------- MODULE Spec2Model ----------------------------
(***************************************************************************)
(* A model of the semantic-version engine vendored in                      *)
(* deno_std@1.150.0/fs/walk.ts.js (lines 143-1247): the version grammar,   *)
(* the SemVer value object, Comparator, Range and the query functions.     *)
(*                                                                         *)
(* JavaScript strings are modelled as sequences of one-character strings,  *)
(* JavaScript numbers as exact naturals in two decimal limbs (TLC integers *)
(* are 32 bits wide, Number.MAX_SAFE_INTEGER is 2^53 - 1), regular         *)
(* expressions as syntax trees run by a backtracking matcher with the      *)
(* priorities of the JavaScript engine, and a thrown exception as a        *)
(* completion record of kind "throw".                                      *)
(***************************************************************************)
EXTENDS Integers, Sequences, FiniteSets, TLC

(***************************************************************************)
(* Characters and strings                                                  *)
(***************************************************************************)
DigitChars == <<"0", "1", "2", "3", "4", "5", "6", "7", "8", "9">>

UpperChars ==
    <<"A", "B", "C", "D", "E", "F", "G", "H", "I", "J", "K", "L", "M",
      "N", "O", "P", "Q", "R", "S", "T", "U", "V", "W", "X", "Y", "Z">>

LowerChars ==
    <<"a", "b", "c", "d", "e", "f", "g", "h", "i", "j", "k", "l", "m",
      "n", "o", "p", "q", "r", "s", "t", "u", "v", "w", "x", "y", "z">>

CharsOf(s) == {s[i] : i \in 1..Len(s)}

Digit == CharsOf(DigitChars)

Upper == CharsOf(UpperChars)

Lower == CharsOf(LowerChars)

\* the characters \s matches, among those the inputs are written in
WhiteSpace == {" "}

IndexOf(s, c) == CHOOSE i \in 1..Len(s) : s[i] = c

\* the UTF-16 code unit of a character (String.prototype.charCodeAt)
CharCode(c) ==
    CASE c \in Digit -> 47 + IndexOf(DigitChars, c)
      [] c \in Upper -> 64 + IndexOf(UpperChars, c)
      [] c \in Lower -> 96 + IndexOf(LowerChars, c)
      [] c = " " -> 32
      [] c = "*" -> 42
      [] c = "+" -> 43
      [] c = "-" -> 45
      [] c = "." -> 46
      [] c = "<" -> 60
      [] c = "=" -> 61
      [] c = ">" -> 62
      [] c = "^" -> 94
      [] c = "|" -> 124
      [] c = "~" -> 126

\* a < b on two strings: the first differing code unit decides, a proper
\* prefix is the smaller
RECURSIVE StrLess(_, _)
StrLess(a, b) ==
    IF b = <<>> THEN FALSE
    ELSE IF a = <<>> THEN TRUE
    ELSE IF Head(a) = Head(b) THEN StrLess(Tail(a), Tail(b))
    ELSE CharCode(Head(a)) < CharCode(Head(b))

\* s.substring(b - 1, e - 1): the characters at positions b .. e-1
Slice(s, b, e) == SubSeq(s, b, e - 1)

\* the least and the greatest element of a non-empty set of integers
Least(S) == CHOOSE i \in S : \A j \in S : i <= j

Greatest(S) == CHOOSE i \in S : \A j \in S : j <= i

\* String.prototype.trim
Trim(s) ==
    LET kept == {i \in 1..Len(s) : s[i] \notin WhiteSpace}
    IN  IF kept = {} THEN <<>> ELSE SubSeq(s, Least(kept), Greatest(kept))

\* Array.prototype.join
RECURSIVE Join(_, _)
Join(parts, sep) ==
    IF parts = <<>> THEN <<>>
    ELSE IF Len(parts) = 1 THEN parts[1]
    ELSE parts[1] \o sep \o Join(Tail(parts), sep)

\* String.prototype.toLowerCase
ToLowerCase(s) ==
    [i \in 1..Len(s) |->
        IF s[i] \in Upper THEN LowerChars[IndexOf(UpperChars, s[i])] ELSE s[i]]

(***************************************************************************)
(* Numbers: the naturals below 10^16, hi * 10^8 + lo, with the rounding of *)
(* an IEEE double above 2^53                                               *)
(***************************************************************************)
Limb == 10^8

Num(n) == [hi |-> 0, lo |-> n]

NumLess(a, b) == a.hi < b.hi \/ (a.hi = b.hi /\ a.lo < b.lo)

\* Number.MAX_SAFE_INTEGER = 2^53 - 1 = 9007199254740991
MAX_SAFE_INTEGER == [hi |-> 90071992, lo |-> 54740991]

Succ(n) ==
    IF n.lo + 1 = Limb THEN [hi |-> n.hi + 1, lo |-> 0]
    ELSE [hi |-> n.hi, lo |-> n.lo + 1]

Pred(n) ==
    IF n.lo = 0 THEN [hi |-> n.hi - 1, lo |-> Limb - 1]
    ELSE [hi |-> n.hi, lo |-> n.lo - 1]

\* the double nearest to a natural below 2^54: exact up to 2^53, and above
\* it the even neighbour whose half is even (round half to even)
RoundDouble(n) ==
    IF ~NumLess(Succ(MAX_SAFE_INTEGER), n) \/ n.lo % 2 = 0 THEN n
    ELSE IF Succ(n).lo % 4 = 0 THEN Succ(n)
    ELSE Pred(n)

\* n + 1 (also n++) on a number
NumInc(n) == RoundDouble(Succ(n))

\* unary plus on a string of decimal digits
RECURSIVE ToNumberAcc(_, _)
ToNumberAcc(s, acc) ==
    IF s = <<>> THEN acc
    ELSE LET d == IndexOf(DigitChars, Head(s)) - 1
             low == acc.lo * 10 + d
         IN  ToNumberAcc(Tail(s),
                 [hi |-> acc.hi * 10 + (low \div Limb), lo |-> low % Limb])

ToNumber(s) == RoundDouble(ToNumberAcc(s, Num(0)))

RECURSIVE NatDigits(_)
NatDigits(n) ==
    IF n < 10 THEN <<DigitChars[n + 1]>>
    ELSE Append(NatDigits(n \div 10), DigitChars[(n % 10) + 1])

\* Number.prototype.toString of a natural: its decimal digits
NumberToString(n) ==
    IF n.hi = 0 THEN NatDigits(n.lo)
    ELSE LET low == NatDigits(n.lo)
         IN  NatDigits(n.hi) \o [i \in 1..(8 - Len(low)) |-> "0"] \o low

(***************************************************************************)
(* JavaScript values that occur as identifiers and captures                *)
(***************************************************************************)
JsNumber(n) == [t |-> "number", num |-> n, str |-> <<>>]

JsString(s) == [t |-> "string", num |-> Num(0), str |-> s]

UNDEFINED == [t |-> "undefined", num |-> Num(0), str |-> <<>>]

NULL == [t |-> "null", num |-> Num(0), str |-> <<>>]

\* String(v) for a number or a string
Text(v) == IF v.t = "number" THEN NumberToString(v.num) ELSE v.str

\* !v for undefined, null, a string or a number
Falsy(v) ==
    \/ v.t \in {"undefined", "null"}
    \/ v.t = "string" /\ v.str = <<>>
    \/ v.t = "number" /\ v.num = Num(0)

\* a completion: a returned value or a thrown error
Return(v) == [kind |-> "return", val |-> v]

Throw(msg) == [kind |-> "throw", val |-> msg]

\* try { tried } catch { handled }
Caught(tried, handled) == IF tried.kind = "throw" THEN handled ELSE tried

(***************************************************************************)
(* Regular expressions                                                     *)
(***************************************************************************)
Chr(cs) == [k |-> "chr", cs |-> cs]

Lit(c) == Chr({c})

Cat(rs) == [k |-> "cat", rs |-> rs]

Alt(rs) == [k |-> "alt", rs |-> rs]

Star(r) == [k |-> "star", r |-> r]

Plus(r) == Cat(<<r, Star(r)>>)

Opt(r) == [k |-> "opt", r |-> r]

Grp(n, r) == [k |-> "grp", n |-> n, r |-> r]

Bol == [k |-> "bol"]

Eol == [k |-> "eol"]

NoMatch == [ok |-> FALSE]

\* Array.prototype.flat on a sequence of sequences (by halves: the depth
\* of the evaluation grows with the logarithm of the length)
RECURSIVE Flat(_)
Flat(ss) ==
    IF ss = <<>> THEN <<>>
    ELSE IF Len(ss) = 1 THEN ss[1]
    ELSE LET half == Len(ss) \div 2
         IN  Flat(SubSeq(ss, 1, half)) \o Flat(SubSeq(ss, half + 1, Len(ss)))

\* the end of the longest run of characters of cs that starts at i
RunEnd(cs, s, i) ==
    CHOOSE j \in i..(Len(s) + 1) :
        /\ \A k \in i..(j - 1) : s[k] \in cs
        /\ j = Len(s) + 1 \/ s[j] \notin cs

\* The backtracking matcher.  A state st is a position st.at in s with the
\* captures st.caps made so far (<<0, 0>>: the group took no part).
\* Match(r, s, st) is the sequence of the states in which a match of r
\* from st can end, in the order in which a backtracking engine tries
\* them: alternatives left to right, quantifiers greedy.  The first state
\* from which the rest of a pattern matches is the engine's match.
RECURSIVE Match(_, _, _)
RECURSIVE MatchCat(_, _, _)
Match(r, s, st) ==
    CASE r.k = "chr" ->
            IF st.at <= Len(s) /\ s[st.at] \in r.cs
            THEN <<[st EXCEPT !.at = st.at + 1]>>
            ELSE <<>>
      [] r.k = "bol" -> IF st.at = 1 THEN <<st>> ELSE <<>>
      [] r.k = "eol" -> IF st.at = Len(s) + 1 THEN <<st>> ELSE <<>>
      [] r.k = "cat" -> MatchCat(r.rs, s, <<st>>)
      [] r.k = "alt" -> Flat([k \in 1..Len(r.rs) |-> Match(r.rs[k], s, st)])
      [] r.k = "opt" -> Match(r.r, s, st) \o <<st>>
      [] r.k = "grp" ->
            LET ends == Match(r.r, s, st)
            IN  [k \in 1..Len(ends) |->
                    [ends[k] EXCEPT !.caps[r.n] = <<st.at, ends[k].at>>]]
      [] r.k = "star" /\ r.r.k = "chr" ->
            LET far == RunEnd(r.r.cs, s, st.at)
            IN  [k \in 1..(far - st.at + 1) |-> [st EXCEPT !.at = far - k + 1]]
      [] r.k = "star" /\ r.r.k # "chr" ->
            LET once == Match(r.r, s, st)
            IN  Flat([k \in 1..Len(once) |->
                        IF once[k].at = st.at THEN <<>>
                        ELSE Match(r, s, once[k])]) \o <<st>>

\* the states after the patterns rs, matched one after the other from
\* each of the states sts
MatchCat(rs, s, sts) ==
    IF sts = <<>> \/ rs = <<>> THEN sts
    ELSE MatchCat(Tail(rs), s,
             Flat([k \in 1..Len(sts) |-> Match(Head(rs), s, sts[k])]))

\* the pattern r has groups 1 .. groups
Regex(r, groups) == [r |-> r, groups |-> groups]

\* the match of s from position i whose end states are ends
Hit(s, i, ends) ==
    IF ends = <<>> THEN NoMatch
    ELSE [ok |-> TRUE, s |-> s, index |-> i, end |-> ends[1].at, caps |-> ends[1].caps]

\* the match of re in s that starts at position i, if there is one
MatchAt(re, s, i) ==
    Hit(s, i, Match(re.r, s, [at |-> i, caps |-> [n \in 1..re.groups |-> <<0, 0>>]]))

\* the first of the matches that start at the positions hits
FirstHit(re, s, hits) == IF hits = {} THEN NoMatch ELSE MatchAt(re, s, Least(hits))

\* RegExp.prototype.exec without the g flag: the match at the leftmost
\* position that has one
Exec(re, s) == FirstHit(re, s, {i \in 1..(Len(s) + 1) : MatchAt(re, s, i).ok})

\* RegExp.prototype.test
Test(re, s) == Exec(re, s).ok

\* m[n] of a match: the text of group n, or undefined
Group(m, n) ==
    IF m.caps[n][1] = 0 THEN UNDEFINED
    ELSE JsString(Slice(m.s, m.caps[n][1], m.caps[n][2]))

\* m[0]
Matched(m) == Slice(m.s, m.index, m.end)

(***************************************************************************)
(* The grammar (walk.ts.js 154-241).  A fragment that holds capturing      *)
(* groups takes the number g of its first group: JavaScript numbers the    *)
(* groups of the composed pattern by their opening parenthesis.            *)
(***************************************************************************)
MAX_LENGTH == 256

Alnum == Digit \cup Upper \cup Lower

\* "0|[1-9]\\d*"
NUMERICIDENTIFIER ==
    Alt(<<Lit("0"), Cat(<<Chr(Digit \ {"0"}), Star(Chr(Digit))>>)>>)

\* "\\d*[a-zA-Z-][a-zA-Z0-9-]*"
NONNUMERICIDENTIFIER ==
    Cat(<<Star(Chr(Digit)), Chr(Upper \cup Lower \cup {"-"}),
          Star(Chr(Alnum \cup {"-"}))>>)

\* `(${nid})\\.(${nid})\\.(${nid})`
MAINVERSION(g) ==
    Cat(<<Grp(g, NUMERICIDENTIFIER), Lit("."), Grp(g + 1, NUMERICIDENTIFIER),
          Lit("."), Grp(g + 2, NUMERICIDENTIFIER)>>)

PRERELEASEIDENTIFIER == Alt(<<NUMERICIDENTIFIER, NONNUMERICIDENTIFIER>>)

PRERELEASE(g) ==
    Cat(<<Lit("-"),
          Grp(g, Cat(<<PRERELEASEIDENTIFIER,
                       Star(Cat(<<Lit("."), PRERELEASEIDENTIFIER>>))>>))>>)

\* "[0-9A-Za-z-]+"
BUILDIDENTIFIER == Plus(Chr(Alnum \cup {"-"}))

BUILD(g) ==
    Cat(<<Lit("+"),
          Grp(g, Cat(<<BUILDIDENTIFIER,
                       Star(Cat(<<Lit("."), BUILDIDENTIFIER>>))>>))>>)

\* "v?" + src[MAINVERSION] + src[PRERELEASE] + "?" + src[BUILD] + "?"
FULLPLAIN(g) ==
    Cat(<<Opt(Lit("v")), MAINVERSION(g), Opt(PRERELEASE(g + 3)),
          Opt(BUILD(g + 4))>>)

FULL == Regex(Cat(<<Bol, FULLPLAIN(1), Eol>>), 5)

\* "((?:<|>)?=?)"
GTLT(g) == Grp(g, Cat(<<Opt(Alt(<<Lit("<"), Lit(">")>>)), Opt(Lit("="))>>))

\* src[NUMERICIDENTIFIER] + "|x|X|\\*"
XRANGEIDENTIFIER == Alt(<<NUMERICIDENTIFIER, Lit("x"), Lit("X"), Lit("*")>>)

XRANGEPLAIN(g) ==
    Cat(<<Star(Chr({"v", "="} \cup WhiteSpace)),
          Grp(g, XRANGEIDENTIFIER),
          Opt(Cat(<<Lit("."), Grp(g + 1, XRANGEIDENTIFIER),
                    Opt(Cat(<<Lit("."), Grp(g + 2, XRANGEIDENTIFIER),
                              Opt(PRERELEASE(g + 3)),
                              Opt(BUILD(g + 4))>>))>>))>>)

XRANGE ==
    Regex(Cat(<<Bol, GTLT(1), Star(Chr(WhiteSpace)), XRANGEPLAIN(2), Eol>>), 6)

\* "(?:~>?)"
LONETILDE == Cat(<<Lit("~"), Opt(Lit(">"))>>)

TILDE == Regex(Cat(<<Bol, LONETILDE, XRANGEPLAIN(1), Eol>>), 5)

\* "(?:\\^)"
LONECARET == Lit("^")

CARET == Regex(Cat(<<Bol, LONECARET, XRANGEPLAIN(1), Eol>>), 5)

\* "^" + src[GTLT] + "\\s*(" + FULLPLAIN + ")$|^$"
COMPARATOR ==
    Regex(Alt(<<Cat(<<Bol, GTLT(1), Star(Chr(WhiteSpace)),
                      Grp(2, FULLPLAIN(3)), Eol>>),
                Cat(<<Bol, Eol>>)>>), 7)

HYPHENRANGE ==
    Regex(Cat(<<Bol, Star(Chr(WhiteSpace)), Grp(1, XRANGEPLAIN(2)),
                Plus(Chr(WhiteSpace)), Lit("-"), Plus(Chr(WhiteSpace)),
                Grp(7, XRANGEPLAIN(8)), Star(Chr(WhiteSpace)), Eol>>), 12)

\* "(<|>)?=?\\s*\\*"
STAR ==
    Regex(Cat(<<Opt(Grp(1, Alt(<<Lit("<"), Lit(">")>>))), Opt(Lit("=")),
                Star(Chr(WhiteSpace)), Lit("*")>>), 1)

\* /^[0-9]+$/
numeric == Regex(Cat(<<Bol, Plus(Chr(Digit)), Eol>>), 0)

(***************************************************************************)
(* Options                                                                 *)
(***************************************************************************)
NoOptions == [t |-> "undefined", includePrerelease |-> FALSE]

Options(b) == [t |-> "object", includePrerelease |-> b]

\* if (typeof options !== "object") options = { includePrerelease: false }
DefaultOptions(options) == IF options.t # "object" THEN Options(FALSE) ELSE options

(***************************************************************************)
(* SemVer (walk.ts.js 272-518)                                             *)
(***************************************************************************)
\* String.prototype.split with a one-character separator
SplitChar(s, c) ==
    LET seps == {i \in 1..Len(s) : s[i] = c}
        n == Cardinality(seps)
        sep(k) == IF k = 0 THEN 0
                  ELSE IF k = n + 1 THEN Len(s) + 1
                  ELSE CHOOSE p \in seps : Cardinality({q \in seps : q < p}) = k - 1
    IN  [k \in 1..(n + 1) |-> SubSeq(s, sep(k - 1) + 1, sep(k) - 1)]

\* format without the prerelease part
formatMainOnly(v) ==
    NumberToString(v.major) \o <<".">> \o NumberToString(v.minor)
        \o <<".">> \o NumberToString(v.patch)

\* SemVer.prototype.format: the value of this.version
format(v) ==
    LET main == NumberToString(v.major) \o <<".">> \o NumberToString(v.minor)
                    \o <<".">> \o NumberToString(v.patch)
    IN  IF Len(v.prerelease) # 0
        THEN main \o <<"-">>
                  \o Join([i \in 1..Len(v.prerelease) |-> Text(v.prerelease[i])],
                          <<".">>)
        ELSE main

\* the callback of m[4].split(".").map: numberify any prerelease numeric ids
Numberify(id) ==
    IF Test(numeric, id) /\ NumLess(ToNumber(id), MAX_SAFE_INTEGER)
    THEN JsNumber(ToNumber(id))
    ELSE JsString(id)

\* the identifiers ids of a prerelease, numeric ones as numbers
Numberified(ids) == [i \in 1..Len(ids) |-> Numberify(ids[i])]

\* the constructor from the checks of the three numbers on: this has every
\* field but version
SemVerChecked(this) ==
    IF NumLess(MAX_SAFE_INTEGER, this.major) THEN Throw("Invalid major version")
    ELSE IF NumLess(MAX_SAFE_INTEGER, this.minor) THEN Throw("Invalid minor version")
    ELSE IF NumLess(MAX_SAFE_INTEGER, this.patch) THEN Throw("Invalid patch version")
    ELSE Return([this EXCEPT !.version = format(this)])

\* the constructor from the match m of the text against FULL on
SemVerMatched(text, options, m) ==
    IF ~m.ok THEN Throw("Invalid Version")
    ELSE SemVerChecked(
             [t |-> "SemVer",
              options |-> options,
              raw |-> text,
              major |-> ToNumber(Group(m, 1).str),
              minor |-> ToNumber(Group(m, 2).str),
              patch |-> ToNumber(Group(m, 3).str),
              prerelease |->
                 IF Falsy(Group(m, 4)) THEN <<>>
                 ELSE Numberified(SplitChar(Group(m, 4).str, ".")),
              build |->
                 IF Falsy(Group(m, 5)) THEN <<>>
                 ELSE SplitChar(Group(m, 5).str, "."),
              version |-> <<>>])

\* the constructor on the text of its argument
SemVerOf(text, options) ==
    IF Len(text) > MAX_LENGTH THEN Throw("version is longer than MAX_LENGTH characters")
    ELSE SemVerMatched(text, options, Exec(FULL, Trim(text)))

\* new SemVer(version, options), as a completion
SemVer(version, options) ==
    IF version.t # "SemVer" /\ version.t # "string" THEN Throw("Invalid Version")
    ELSE SemVerOf(IF version.t = "SemVer" THEN version.version ELSE version.str,
                  DefaultOptions(options))

\* parse(version, options), as a completion: the catch turns a throwing
\* construction into null
parseNoCatch(version, options) ==
    IF version.t = "SemVer" THEN Return(version)
    ELSE IF version.t # "string" THEN Return(NULL)
    ELSE IF Len(version.str) > MAX_LENGTH THEN Return(NULL)
    ELSE IF ~Test(FULL, version.str) THEN Return(NULL)
    ELSE SemVer(version, DefaultOptions(options))

parse(version, options) ==
    IF version.t = "SemVer" THEN Return(version)
    ELSE IF version.t # "string" THEN Return(NULL)
    ELSE IF Len(version.str) > MAX_LENGTH THEN Return(NULL)
    ELSE IF ~Test(FULL, version.str) THEN Return(NULL)
    ELSE Caught(SemVer(version, DefaultOptions(options)), Return(NULL))

\* valid(version, options)
\* v ? v.version : null
VersionOrNull(v) == IF v.t = "SemVer" THEN Return(JsString(v.version)) ELSE Return(NULL)

valid(version, options) ==
    IF version = NULL THEN Return(NULL) ELSE VersionOrNull(parse(version, options).val)

\* +v of a number or of a string of digits
NumberOf(v) == IF v.t = "number" THEN v.num ELSE ToNumber(v.str)

\* a < b on two values that are both numbers or both strings; a number
\* against a string that is no number is false (NaN)
JsLess(a, b) ==
    IF a.t = "number" /\ b.t = "number" THEN NumLess(a.num, b.num)
    ELSE IF a.t = "string" /\ b.t = "string" THEN StrLess(a.str, b.str)
    ELSE FALSE

\* compareIdentifiers without its a === b case
compareIdentifiersNoEqual(a, b, anum, bnum) ==
    IF anum /\ ~bnum THEN -1
    ELSE IF bnum /\ ~anum THEN 1
    ELSE IF JsLess(a, b) THEN -1
    ELSE 1

\* the return of compareIdentifiers: a and b are the operands after the
\* conversion, anum and bnum tell which of them were numeric
compareIdentifiersReturn(a, b, anum, bnum) ==
    IF a = b THEN 0
    ELSE IF anum /\ ~bnum THEN -1
    ELSE IF bnum /\ ~anum THEN 1
    ELSE IF JsLess(a, b) THEN -1
    ELSE 1

\* compareIdentifiers from the two tests on: when both operands are numeric
\* they are turned into numbers
compareIdentifiersTested(a, b, anum, bnum) ==
    IF anum /\ bnum
    THEN compareIdentifiersReturn(JsNumber(NumberOf(a)), JsNumber(NumberOf(b)), anum, bnum)
    ELSE compareIdentifiersReturn(a, b, anum, bnum)

\* compareIdentifiers(a, b); the operands are fields and identifiers of
\* constructed versions, never null
compareIdentifiers(a, b) ==
    compareIdentifiersTested(a, b, Test(numeric, Text(a)), Test(numeric, Text(b)))

rcompareIdentifiers(a, b) == compareIdentifiers(b, a)

\* a || b on two numbers
OrElse(a, b) == IF a # 0 THEN a ELSE b

\* SemVer.prototype.compareMain, other a SemVer
compareMain(this, other) ==
    OrElse(compareIdentifiers(JsNumber(this.major), JsNumber(other.major)),
      OrElse(compareIdentifiers(JsNumber(this.minor), JsNumber(other.minor)),
             compareIdentifiers(JsNumber(this.patch), JsNumber(other.patch))))

\* the do ... while (++i) loop of comparePre and compareBuild over the
\* identifier lists a and b, from index i (1-based) on
RECURSIVE compareLists(_, _, _)
compareLists(a, b, i) ==
    IF i > Len(a) /\ i > Len(b) THEN 0
    ELSE IF i > Len(b) THEN 1
    ELSE IF i > Len(a) THEN -1
    ELSE IF a[i] = b[i] THEN compareLists(a, b, i + 1)
    ELSE compareIdentifiers(a[i], b[i])

\* comparePre without its two "only one side has a prerelease" cases
comparePreNoRelease(this, other) ==
    IF Len(this.prerelease) = 0 /\ Len(other.prerelease) = 0 THEN 0
    ELSE compareLists(this.prerelease, other.prerelease, 1)

\* SemVer.prototype.comparePre, other a SemVer
comparePre(this, other) ==
    IF Len(this.prerelease) # 0 /\ Len(other.prerelease) = 0 THEN -1
    ELSE IF Len(this.prerelease) = 0 /\ Len(other.prerelease) # 0 THEN 1
    ELSE IF Len(this.prerelease) = 0 /\ Len(other.prerelease) = 0 THEN 0
    ELSE compareLists(this.prerelease, other.prerelease, 1)

\* SemVer.prototype.compare that goes on to the build identifiers
SemVer_compareWithBuild(this, other) ==
    OrElse(OrElse(compareMain(this, other), comparePre(this, other)),
           compareLists([i \in 1..Len(this.build) |-> JsString(this.build[i])],
                        [i \in 1..Len(other.build) |-> JsString(other.build[i])], 1))

\* SemVer.prototype.compare, other a SemVer
SemVer_compare(this, other) ==
    OrElse(compareMain(this, other), comparePre(this, other))

\* SemVer.prototype.compareBuild, other a SemVer
SemVer_compareBuild(this, other) ==
    compareLists([i \in 1..Len(this.build) |-> JsString(this.build[i])],
                 [i \in 1..Len(other.build) |-> JsString(other.build[i])], 1)

\* compare(v1, v2, options)
compareMade(a, b) ==
    IF a.kind = "throw" THEN a
    ELSE IF b.kind = "throw" THEN b
    ELSE Return(SemVer_compare(a.val, b.val))

compare(v1, v2, options) == compareMade(SemVer(v1, options), SemVer(v2, options))

\* compareBuild(a, b, options)
compareBuildMade(versionA, versionB) ==
    IF versionA.kind = "throw" THEN versionA
    ELSE IF versionB.kind = "throw" THEN versionB
    ELSE Return(OrElse(SemVer_compare(versionA.val, versionB.val),
                       SemVer_compareBuild(versionA.val, versionB.val)))

compareBuild(a, b, options) == compareBuildMade(SemVer(a, options), SemVer(b, options))

rcompare(v1, v2, options) == compare(v2, v1, options)

\* the completion c of compare, passed on when it throws and else turned
\* into whether its number is one of those in holds
Compared(c, holds) == IF c.kind = "throw" THEN c ELSE Return(c.val \in holds)

gt(v1, v2, options) == Compared(compare(v1, v2, options), {n \in -1..1 : n > 0})

lt(v1, v2, options) == Compared(compare(v1, v2, options), {n \in -1..1 : n < 0})

eq(v1, v2, options) == Compared(compare(v1, v2, options), {n \in -1..1 : n = 0})

neq(v1, v2, options) == Compared(compare(v1, v2, options), {n \in -1..1 : n # 0})

gte(v1, v2, options) == Compared(compare(v1, v2, options), {n \in -1..1 : n >= 0})

lte(v1, v2, options) == Compared(compare(v1, v2, options), {n \in -1..1 : n <= 0})

\* cmp(v1, operator, v2, options)
cmp(v1, operator, v2, options) ==
    CASE operator = <<"=", "=", "=">> ->
            Return((IF v1.t = "SemVer" THEN JsString(v1.version) ELSE v1)
                   = (IF v2.t = "SemVer" THEN JsString(v2.version) ELSE v2))
      [] operator = <<"!", "=", "=">> ->
            Return((IF v1.t = "SemVer" THEN JsString(v1.version) ELSE v1)
                   # (IF v2.t = "SemVer" THEN JsString(v2.version) ELSE v2))
      [] operator \in {<<>>, <<"=">>, <<"=", "=">>} -> eq(v1, v2, options)
      [] operator = <<"!", "=">> -> neq(v1, v2, options)
      [] operator = <<">">> -> gt(v1, v2, options)
      [] operator = <<">", "=">> -> gte(v1, v2, options)
      [] operator = <<"<">> -> lt(v1, v2, options)
      [] operator = <<"<", "=">> -> lte(v1, v2, options)
      [] OTHER -> Throw("Invalid operator")

(***************************************************************************)
(* Range rewriting (walk.ts.js 866-1053)                                   *)
(***************************************************************************)
\* /\s+/
Spaces == Regex(Plus(Chr(WhiteSpace)), 0)

\* /\s*\|\|\s*/
OrBars ==
    Regex(Cat(<<Star(Chr(WhiteSpace)), Lit("|"), Lit("|"), Star(Chr(WhiteSpace))>>), 0)

\* String.prototype.split with a pattern that matches no empty string and
\* has no groups: the pieces of s from position p on, hits being the
\* positions from p on where the pattern matches
RECURSIVE SplitFrom(_, _, _)
SplitCut(re, s, p, hits) ==
    IF hits = {} THEN <<SubSeq(s, p, Len(s))>>
    ELSE <<SubSeq(s, p, Least(hits) - 1)>>
             \o SplitFrom(re, s, MatchAt(re, s, Least(hits)).end)

SplitFrom(re, s, p) == SplitCut(re, s, p, {q \in p..Len(s) : MatchAt(re, s, q).ok})

Split(re, s) == SplitFrom(re, s, 1)

\* String.prototype.replace with a pattern without the g flag: the text of
\* s with the match m replaced by ret
Replaced(m, s, ret) ==
    SubSeq(s, 1, m.index - 1) \o ret \o SubSeq(s, m.end, Len(s))

\* +id + 1 as text, id the digits of a captured identifier
Bump(id) == NumberToString(NumInc(ToNumber(id.str)))

isX(id) == Falsy(id) \/ ToLowerCase(id.str) = <<"x">> \/ id.str = <<"*">>

GE == <<">", "=">>

LT == <<"<">>

LE == <<"<", "=">>

Dot == <<".">>

Dot0 == <<".", "0">>

Dot00 == <<".", "0", ".", "0">>

Space == <<" ">>

\* the callback of replaceTilde with the upper bound of a full version at
\* the next patch instead of the next minor
replaceTildeRetSamePatch(M, m, p, pr) ==
    IF isX(M) THEN <<>>
    ELSE IF isX(m) THEN GE \o M.str \o Dot00 \o Space \o LT \o Bump(M) \o Dot00
    ELSE IF isX(p)
    THEN GE \o M.str \o Dot \o m.str \o Dot0
            \o Space \o LT \o M.str \o Dot \o Bump(m) \o Dot0
    ELSE IF ~Falsy(pr)
    THEN GE \o M.str \o Dot \o m.str \o Dot \o p.str \o <<"-">> \o pr.str
            \o Space \o LT \o M.str \o Dot \o Bump(m) \o Dot0
    ELSE GE \o M.str \o Dot \o m.str \o Dot \o p.str
            \o Space \o LT \o M.str \o Dot \o m.str \o Dot \o Bump(p)

\* the callback (_, M, m, p, pr) => ret of replaceTilde
replaceTildeRet(M, m, p, pr) ==
    IF isX(M) THEN <<>>
    ELSE IF isX(m) THEN GE \o M.str \o Dot00 \o Space \o LT \o Bump(M) \o Dot00
    ELSE IF isX(p)
    THEN GE \o M.str \o Dot \o m.str \o Dot0
            \o Space \o LT \o M.str \o Dot \o Bump(m) \o Dot0
    ELSE IF ~Falsy(pr)
    THEN GE \o M.str \o Dot \o m.str \o Dot \o p.str \o <<"-">> \o pr.str
            \o Space \o LT \o M.str \o Dot \o Bump(m) \o Dot0
    ELSE GE \o M.str \o Dot \o m.str \o Dot \o p.str
            \o Space \o LT \o M.str \o Dot \o Bump(m) \o Dot0

\* comp.replace(r, callback), hit the match of r in comp
replaceTildeHit(comp, hit) ==
    IF hit.ok
    THEN Replaced(hit, comp,
             replaceTildeRet(Group(hit, 1), Group(hit, 2), Group(hit, 3), Group(hit, 4)))
    ELSE comp

\* replaceTilde(comp, options)
replaceTilde(comp, options) == replaceTildeHit(comp, Exec(TILDE, comp))

\* comps.map((comp) => replaceTilde(comp, options)).join(" ")
replaceTildesOf(comps, options) ==
    Join([i \in 1..Len(comps) |-> replaceTilde(comps[i], options)], Space)

\* replaceTildes(comp, options)
replaceTildes(comp, options) == replaceTildesOf(Split(Spaces, Trim(comp)), options)

\* the callback of replaceCaret without its cases for a major of 0: the
\* upper bound is always the next major
replaceCaretRetMajorOnly(M, m, p, pr) ==
    IF isX(M) THEN <<>>
    ELSE IF isX(m) THEN GE \o M.str \o Dot00 \o Space \o LT \o Bump(M) \o Dot00
    ELSE IF isX(p)
    THEN GE \o M.str \o Dot \o m.str \o Dot0 \o Space \o LT \o Bump(M) \o Dot00
    ELSE GE \o M.str \o Dot \o m.str \o Dot \o p.str
            \o (IF ~Falsy(pr) THEN <<"-">> \o pr.str ELSE <<>>)
            \o Space \o LT \o Bump(M) \o Dot00

\* the callback (_, M, m, p, pr) => ret of replaceCaret; its cases with and
\* without pr differ in the "-" + pr after the lower bound only
replaceCaretRet(M, m, p, pr) ==
    LET from == GE \o M.str \o Dot \o m.str \o Dot \o p.str
                   \o (IF ~Falsy(pr) THEN <<"-">> \o pr.str ELSE <<>>)
    IN  IF isX(M) THEN <<>>
        ELSE IF isX(m) THEN GE \o M.str \o Dot00 \o Space \o LT \o Bump(M) \o Dot00
        ELSE IF isX(p)
        THEN IF M.str = <<"0">>
             THEN GE \o M.str \o Dot \o m.str \o Dot0
                     \o Space \o LT \o M.str \o Dot \o Bump(m) \o Dot0
             ELSE GE \o M.str \o Dot \o m.str \o Dot0 \o Space \o LT \o Bump(M) \o Dot00
        ELSE IF M.str = <<"0">>
        THEN IF m.str = <<"0">>
             THEN from \o Space \o LT \o M.str \o Dot \o m.str \o Dot \o Bump(p)
             ELSE from \o Space \o LT \o M.str \o Dot \o Bump(m) \o Dot0
        ELSE from \o Space \o LT \o Bump(M) \o Dot00

\* comp.replace(r, callback), hit the match of r in comp
replaceCaretHit(comp, hit) ==
    IF hit.ok
    THEN Replaced(hit, comp,
             replaceCaretRet(Group(hit, 1), Group(hit, 2), Group(hit, 3), Group(hit, 4)))
    ELSE comp

\* replaceCaret(comp, options)
replaceCaret(comp, options) == replaceCaretHit(comp, Exec(CARET, comp))

\* comps.map((comp) => replaceCaret(comp, options)).join(" ")
replaceCaretsOf(comps, options) ==
    Join([i \in 1..Len(comps) |-> replaceCaret(comps[i], options)], Space)

\* replaceCarets(comp, options)
replaceCarets(comp, options) == replaceCaretsOf(Split(Spaces, Trim(comp)), options)

\* the callback of replaceXRange without its case for ">": the wildcards
\* become 0 as they do for ">=" and "<"
replaceXRangeRetKeepGt(ret, gtlt0, M, m, p) ==
    LET xM == isX(M)
        xm == xM \/ isX(m)
        xp == xm \/ isX(p)
        anyX == xp
        gtlt == IF gtlt0.str = <<"=">> /\ anyX THEN <<>> ELSE gtlt0.str
    IN  IF xM
        THEN IF gtlt = <<">">> \/ gtlt = <<"<">>
             THEN <<"<", "0", ".", "0", ".", "0">>
             ELSE <<"*">>
        ELSE IF gtlt # <<>> /\ anyX
        THEN IF gtlt = LE
             THEN IF xm THEN LT \o Bump(M) \o Dot00
                  ELSE LT \o M.str \o Dot \o Bump(m) \o Dot0
             ELSE gtlt \o M.str \o Dot \o (IF xm THEN <<"0">> ELSE m.str) \o Dot0
        ELSE IF xm THEN GE \o M.str \o Dot00 \o Space \o LT \o Bump(M) \o Dot00
        ELSE IF xp
        THEN GE \o M.str \o Dot \o m.str \o Dot0
                \o Space \o LT \o M.str \o Dot \o Bump(m) \o Dot0
        ELSE ret

\* the callback (ret, gtlt, M, m, p, pr) => ret of replaceXRange; gtlt0 is
\* the operator as captured
replaceXRangeRet(ret, gtlt0, M, m, p) ==
    LET xM == isX(M)
        xm == xM \/ isX(m)
        xp == xm \/ isX(p)
        anyX == xp
        gtlt == IF gtlt0.str = <<"=">> /\ anyX THEN <<>> ELSE gtlt0.str
    IN  IF xM
        THEN IF gtlt = <<">">> \/ gtlt = <<"<">>
             THEN <<"<", "0", ".", "0", ".", "0">>
             ELSE <<"*">>
        ELSE IF gtlt # <<>> /\ anyX
        THEN IF gtlt = <<">">>
             THEN IF xm THEN GE \o Bump(M) \o Dot00
                  ELSE GE \o M.str \o Dot \o Bump(m) \o Dot0
             ELSE IF gtlt = LE
             THEN IF xm THEN LT \o Bump(M) \o Dot00
                  ELSE LT \o M.str \o Dot \o Bump(m) \o Dot0
             ELSE gtlt \o M.str \o Dot \o (IF xm THEN <<"0">> ELSE m.str) \o Dot0
        ELSE IF xm THEN GE \o M.str \o Dot00 \o Space \o LT \o Bump(M) \o Dot00
        ELSE IF xp
        THEN GE \o M.str \o Dot \o m.str \o Dot0
                \o Space \o LT \o M.str \o Dot \o Bump(m) \o Dot0
        ELSE ret

\* comp.replace(r, callback), hit the match of r in the trimmed comp
replaceXRangeHit(comp, hit) ==
    IF hit.ok
    THEN Replaced(hit, comp,
             replaceXRangeRet(Matched(hit), Group(hit, 1), Group(hit, 2), Group(hit, 3),
                              Group(hit, 4)))
    ELSE comp

\* replaceXRange(comp, options)
replaceXRange(comp, options) == replaceXRangeHit(Trim(comp), Exec(XRANGE, Trim(comp)))

\* comps.map((comp) => replaceXRange(comp, options)).join(" ")
replaceXRangesOf(comps, options) ==
    Join([i \in 1..Len(comps) |-> replaceXRange(comps[i], options)], Space)

\* replaceXRanges(comp, options)
replaceXRanges(comp, options) == replaceXRangesOf(Split(Spaces, comp), options)

\* comp.replace(re[STAR], ""), hit the match of STAR in the trimmed comp
replaceStarsHit(comp, hit) == IF hit.ok THEN Replaced(hit, comp, <<>>) ELSE comp

\* replaceStars(comp, options)
replaceStars(comp, options) == replaceStarsHit(Trim(comp), Exec(STAR, Trim(comp)))

\* parseComparator(comp, options)
parseComparator(comp, options) ==
    replaceStars(
        replaceXRanges(
            replaceTildes(
                replaceCarets(comp, options), options), options), options)

\* hyphenReplace with a partial upper bound completed with zeros, inclusive
hyphenReplaceInclusive(from, fM, fm, fp, to, tM, tm, tp, tpr) ==
    Trim((IF isX(fM) THEN <<>>
          ELSE IF isX(fm) THEN GE \o fM.str \o Dot00
          ELSE IF isX(fp) THEN GE \o fM.str \o Dot \o fm.str \o Dot0
          ELSE GE \o from.str)
         \o Space
         \o (IF isX(tM) THEN <<>>
             ELSE IF isX(tm) THEN LE \o tM.str \o Dot00
             ELSE IF isX(tp) THEN LE \o tM.str \o Dot \o tm.str \o Dot0
             ELSE IF ~Falsy(tpr)
             THEN LE \o tM.str \o Dot \o tm.str \o Dot \o tp.str \o <<"-">> \o tpr.str
             ELSE LE \o to.str))

\* hyphenReplace($0, from, fM, fm, fp, fpr, fb, to, tM, tm, tp, tpr, tb),
\* without the parameters it does not read
hyphenReplace(from, fM, fm, fp, to, tM, tm, tp, tpr) ==
    Trim((IF isX(fM) THEN <<>>
          ELSE IF isX(fm) THEN GE \o fM.str \o Dot00
          ELSE IF isX(fp) THEN GE \o fM.str \o Dot \o fm.str \o Dot0
          ELSE GE \o from.str)
         \o Space
         \o (IF isX(tM) THEN <<>>
             ELSE IF isX(tm) THEN LT \o Bump(tM) \o Dot00
             ELSE IF isX(tp) THEN LT \o tM.str \o Dot \o Bump(tm) \o Dot0
             ELSE IF ~Falsy(tpr)
             THEN LE \o tM.str \o Dot \o tm.str \o Dot \o tp.str \o <<"-">> \o tpr.str
             ELSE LE \o to.str))

\* range.replace(hr, hyphenReplace), hr the match of HYPHENRANGE in range
hyphenReplaced(range, hr) ==
    IF hr.ok
    THEN Replaced(hr, range,
             hyphenReplace(Group(hr, 1), Group(hr, 2), Group(hr, 3), Group(hr, 4),
                           Group(hr, 7), Group(hr, 8), Group(hr, 9), Group(hr, 10),
                           Group(hr, 11)))
    ELSE range

(***************************************************************************)
(* Comparator and Range (walk.ts.js 652-850, 1054-1061)                    *)
(***************************************************************************)
\* const ANY = {}
ANY == [t |-> "ANY"]

\* the completions rs of the calls a map makes, in order: the first error
\* thrown, or else the sequence of the values returned
Thrown(rs) == {i \in 1..Len(rs) : rs[i].kind = "throw"}

Collect(rs) ==
    IF Thrown(rs) = {} THEN Return([i \in 1..Len(rs) |-> rs[i].val])
    ELSE rs[Least(Thrown(rs))]

\* the constructor after this.parse(comp): operator is this.operator and
\* semver the completion that gave this.semver
ComparatorParsed(options, operator, semver) ==
    IF semver.kind = "throw" THEN semver
    ELSE Return([t |-> "Comparator",
                 options |-> options,
                 operator |-> operator,
                 semver |-> semver.val,
                 value |-> IF semver.val = ANY THEN <<>>
                           ELSE operator \o semver.val.version])

\* Comparator.prototype.parse from the match m of comp against COMPARATOR
\* on, and the rest of the constructor
ComparatorMatched(options, m) ==
    IF ~m.ok THEN Throw("Invalid comparator")
    ELSE ComparatorParsed(options,
             IF Group(m, 1) = UNDEFINED \/ Group(m, 1).str = <<"=">> THEN <<>>
             ELSE Group(m, 1).str,
             IF Falsy(Group(m, 2)) THEN Return(ANY) ELSE SemVer(Group(m, 2), options))

\* new Comparator(comp, options), as a completion
Comparator(comp, options) ==
    IF comp.t = "Comparator" THEN Return(comp)
    ELSE IF comp.t # "string" THEN Throw("comp.match is not a function")
    ELSE ComparatorMatched(DefaultOptions(options), Exec(COMPARATOR, comp.str))

\* Comparator.prototype.test(version) from the version v it compares on,
\* a completion
Comparator_testOn(this, v) ==
    IF v.kind = "throw" THEN v
    ELSE cmp(v.val, this.operator, this.semver, this.options)

\* Comparator.prototype.test(version), as a completion
Comparator_test(this, version) ==
    IF this.semver = ANY \/ version = ANY THEN Return(TRUE)
    ELSE Comparator_testOn(this,
             IF version.t = "string" THEN SemVer(version, this.options)
             ELSE Return(version))

\* comps.map((comp) => parseComparator(comp, this.options)).join(" ")
parseComparators(comps, options) ==
    Join([i \in 1..Len(comps) |-> parseComparator(comps[i], options)], Space)

\* the map with the texts that are no comparators left out
ComparatorsValidOnly(set, options) ==
    Collect(SelectSeq([i \in 1..Len(set) |-> Comparator(JsString(set[i]), options)],
                      LAMBDA c : c.kind = "return"))

\* set.map((comp) => new Comparator(comp, this.options))
Comparators(set, options) ==
    Collect([i \in 1..Len(set) |-> Comparator(JsString(set[i]), options)])

\* Range.prototype.parseRange(range), as a completion; options is
\* this.options
parseRange(range, options) ==
    Comparators(
        Split(Spaces,
            parseComparators(
                SplitChar(
                    Join(Split(Spaces,
                             hyphenReplaced(Trim(range), Exec(HYPHENRANGE, Trim(range)))),
                         Space),
                    " "),
                options)),
        options)

\* Range.prototype.format: the value of this.range
Range_format(set) ==
    Trim(Join([i \in 1..Len(set) |->
                  Trim(Join([j \in 1..Len(set[i]) |-> set[i][j].value], Space))],
              <<"|", "|">>))

\* the filter of the constructor: c.length
NonEmpty(c) == Len(c) # 0

\* the constructor from the filtered set on
RangeFiltered(raw, options, set) ==
    IF Len(set) = 0 THEN Throw("Invalid SemVer Range")
    ELSE Return([t |-> "Range",
                 options |-> options,
                 includePrerelease |-> options.includePrerelease,
                 raw |-> raw,
                 set |-> set,
                 range |-> Range_format(set)])

\* the constructor from the completion sets of the map over the pieces on
RangeMapped(raw, options, sets) ==
    IF sets.kind = "throw" THEN sets
    ELSE RangeFiltered(raw, options, SelectSeq(sets.val, NonEmpty))

\* pieces.map((range) => this.parseRange(range.trim()))
parseRanges(pieces, options) ==
    Collect([i \in 1..Len(pieces) |-> parseRange(Trim(pieces[i]), options)])

\* the constructor on the text raw
RangeOf(raw, options) ==
    RangeMapped(raw, options, parseRanges(Split(OrBars, raw), options))

\* new Range(range, options), as a completion
Range(range, options) ==
    IF range.t = "Range" /\ range.includePrerelease = DefaultOptions(options).includePrerelease
    THEN Return(range)
    ELSE IF range.t \notin {"Range", "Comparator", "string"}
    THEN Throw("range.split is not a function")
    ELSE RangeOf(IF range.t = "Range" THEN range.raw
                 ELSE IF range.t = "Comparator" THEN range.value
                 ELSE range.str,
                 DefaultOptions(options))

\* testSet with every comparator that has a prerelease admitting the
\* prereleases of any version
testSetAnyTuple(set, version, options, tests) ==
    LET stops == {i \in 1..Len(set) : tests[i].kind = "throw" \/ ~tests[i].val}
        allowed == {i \in 1..Len(set) :
                      /\ set[i].semver # ANY
                      /\ Len(set[i].semver.prerelease) > 0}
    IN  IF stops # {}
        THEN (IF tests[Least(stops)].kind = "throw" THEN tests[Least(stops)]
              ELSE Return(FALSE))
        ELSE IF Len(version.prerelease) # 0 /\ ~options.includePrerelease
        THEN Return(allowed # {})
        ELSE Return(TRUE)

\* testSet: tests are the completions of set[i].test(version), of which
\* the first loop reads up to the first that is false or throws
testSetTested(set, version, options, tests) ==
    LET stops == {i \in 1..Len(set) : tests[i].kind = "throw" \/ ~tests[i].val}
        allowed == {i \in 1..Len(set) :
                      /\ set[i].semver # ANY
                      /\ Len(set[i].semver.prerelease) > 0
                      /\ set[i].semver.major = version.major
                      /\ set[i].semver.minor = version.minor
                      /\ set[i].semver.patch = version.patch}
    IN  IF stops # {}
        THEN (IF tests[Least(stops)].kind = "throw" THEN tests[Least(stops)]
              ELSE Return(FALSE))
        ELSE IF Len(version.prerelease) # 0 /\ ~options.includePrerelease
        THEN Return(allowed # {})
        ELSE Return(TRUE)

\* testSet(set, version, options), version a SemVer, as a completion
testSet(set, version, options) ==
    testSetTested(set, version, options,
        [i \in 1..Len(set) |-> Comparator_test(set[i], version)])

\* the loop of Range.prototype.test: tests are the completions of testSet
\* on the sets, read up to the first that is true or throws
Range_testLoop(tests) ==
    LET stops == {i \in 1..Len(tests) : tests[i].kind = "throw" \/ tests[i].val}
    IN  IF stops = {} THEN Return(FALSE) ELSE tests[Least(stops)]

\* Range.prototype.test from the version v it tests on, a completion
Range_testOn(this, v) ==
    IF v.kind = "throw" THEN v
    ELSE Range_testLoop([i \in 1..Len(this.set) |->
                            testSet(this.set[i], v.val, this.options)])

\* Range.prototype.test(version), as a completion.  A version that is
\* neither a string nor a SemVer makes the first comparator's cmp throw, or,
\* past comparators that are all ANY, the read of version.prerelease.length
Range_test(this, version) ==
    Range_testOn(this,
        IF version.t = "string" THEN SemVer(version, this.options)
        ELSE IF version.t = "SemVer" THEN Return(version)
        ELSE Throw("Invalid Version"))

\* satisfies from the completion made of new Range(range, options) on
satisfiesMade(version, made) ==
    IF made.kind = "throw" THEN Return(FALSE) ELSE Range_test(made.val, version)

\* satisfies(version, range, options), as a completion
satisfies(version, range, options) == satisfiesMade(version, Range(range, options))

(***************************************************************************)
(* The state: one call of an exported function.  fn names the function,    *)
(* args holds its arguments, pc is "call" before the call and "done"       *)
(* after it, ret is the completion of the call.                            *)
(***************************************************************************)
VARIABLES fn, args, pc, ret

vars == <<fn, args, pc, ret>>

Pending == [kind |-> "pending", val |-> NULL]

Finish(completion) ==
    /\ pc = "call"
    /\ pc' = "done"
    /\ ret' = completion
    /\ UNCHANGED <<fn, args>>

(***************************************************************************)
(* Inputs                                                                  *)
(***************************************************************************)
\* the numeric fields of the enumerated versions are 0 .. MaxNum
MaxNum == 2

Nums == 0..MaxNum

Dec(n) == NumberToString(Num(n))

\* M.m.p[-pre][+build]; an empty pre or build is left out
VersionText(M, m, p, pre, build) ==
    M \o <<".">> \o m \o <<".">> \o p
      \o (IF pre = <<>> THEN <<>> ELSE <<"-">> \o pre)
      \o (IF build = <<>> THEN <<>> ELSE <<"+">> \o build)

alpha == <<"a", "l", "p", "h", "a">>

beta == <<"b", "e", "t", "a">>

MaxSafeText == NumberToString(MAX_SAFE_INTEGER)

TooBigText == NumberToString(Succ(MAX_SAFE_INTEGER))

\* n copies of the character c
Repeat(c, n) == [i \in 1..n |-> c]

(***************************************************************************)
(* parse                                                                   *)
(***************************************************************************)
ParsePre == {<<>>, alpha, alpha \o <<".", "1">>, <<"0">>, <<"r", "c", "-", "1">>}

ParseBuild == {<<>>, <<"b", ".", "7">>}

WellFormed ==
    {VersionText(Dec(M), Dec(m), Dec(p), pre, build) :
        M \in Nums, m \in Nums, p \in Nums, pre \in ParsePre, build \in ParseBuild}

Malformed ==
    { <<>>,
      <<"v">>,
      <<"n", "o", "t", "-", "a", "-", "v", "e", "r", "s", "i", "o", "n">>,
      <<"1">>,
      <<"1", ".", "2">>,
      <<"1", ".", "2", ".", "3", ".", "4">>,
      <<"0", "1", ".", "2", ".", "3">>,
      <<"1", ".", "0", "2", ".", "3">>,
      <<"1", ".", "2", ".", "3", "-">>,
      <<"1", ".", "2", ".", "3", "-", "0", "1">>,
      <<"1", ".", "2", ".", "3", "-", "a", ".", ".", "b">>,
      <<"1", ".", "2", ".", "3", "+">>,
      <<"1", ".", "2", ".", "3", "+", "a", "+", "b">>,
      <<" ", "1", ".", "2", ".", "3">>,
      <<"1", ".", "2", ".", "3", " ">>,
      <<"=", "1", ".", "2", ".", "3">>,
      <<"1", ".", "x", ".", "3">>,
      <<"V", "1", ".", "2", ".", "3">> }

EdgeTexts ==
    { <<"v", "1", ".", "2", ".", "3">>,
      <<"v", "1", ".", "2", ".", "3", "-", "0", "1", "a", "+", "0", "0", "1">>,
      <<"1", ".", "2", ".", "3", "-", "-">>,
      VersionText(MaxSafeText, Dec(0), Dec(0), <<>>, <<>>),
      VersionText(Dec(0), MaxSafeText, MaxSafeText, MaxSafeText, <<>>),
      VersionText(TooBigText, Dec(0), Dec(0), <<>>, <<>>),
      VersionText(Dec(0), TooBigText, Dec(0), <<>>, <<>>),
      VersionText(Dec(0), Dec(0), TooBigText, alpha, <<>>),
      VersionText(Dec(0), Dec(0), Dec(0), TooBigText, <<>>),
      <<"v">> \o Repeat("1", 300),
      VersionText(Dec(1), Dec(0), Dec(0), <<>>, Repeat("a", MAX_LENGTH - 6)),
      VersionText(Dec(1), Dec(0), Dec(0), <<>>, Repeat("a", MAX_LENGTH - 5)),
      VersionText(Dec(1), Dec(0), Dec(0), Repeat("a", MAX_LENGTH), <<>>) }

ParseStrings == {JsString(t) : t \in WellFormed \cup Malformed \cup EdgeTexts}

\* what a caller can pass that is no string: null, undefined, a number and
\* a Version object
ParseObjects ==
    {SemVer(JsString(t), NoOptions).val :
        t \in {VersionText(Dec(1), Dec(2), Dec(0), pre, build) :
                  pre \in ParsePre, build \in ParseBuild}}

ParseInputs == ParseStrings \cup ParseObjects \cup {NULL, UNDEFINED, JsNumber(Num(1))}

InitParse ==
    /\ fn = "parse"
    /\ args \in {<<v, o>> : v \in ParseInputs, o \in {NoOptions}}
    /\ pc = "call"
    /\ ret = Pending

ParseCall == fn = "parse" /\ Finish(parse(args[1], args[2]))

NextParse == ParseCall

SpecParse == InitParse /\ [][NextParse]_vars

ParseDone == pc = "done" /\ fn = "parse"

\* C2 as stated: parse never raises; it returns null for every input that
\* is no string, for every string longer than MAX_LENGTH, for every string
\* that fails the full-version grammar and for every string whose
\* construction fails, and a Version for every other string.
C2_ParseNullOrVersion ==
    ParseDone =>
        /\ ret.kind = "return"
        /\ IF args[1].t # "string" THEN ret.val = NULL
           ELSE IF Len(args[1].str) > MAX_LENGTH THEN ret.val = NULL
           ELSE IF ~Test(FULL, args[1].str) THEN ret.val = NULL
           ELSE IF SemVer(args[1], args[2]).kind = "throw" THEN ret.val = NULL
           ELSE ret.val.t = "SemVer"

\* C2 as amended: parse never raises; it returns a Version object that it
\* is given unchanged, null for every other input that is no string, null
\* for every string that is longer than MAX_LENGTH, fails the full-version
\* grammar or fails construction, and for every other string the Version
\* the constructor makes of it.
C2_ParseTotal ==
    ParseDone =>
        /\ ret.kind = "return"
        /\ IF args[1].t = "SemVer" THEN ret.val = args[1]
           ELSE IF args[1].t # "string" THEN ret.val = NULL
           ELSE IF Len(args[1].str) > MAX_LENGTH THEN ret.val = NULL
           ELSE IF ~Test(FULL, args[1].str) THEN ret.val = NULL
           ELSE IF SemVer(args[1], args[2]).kind = "throw" THEN ret.val = NULL
           ELSE /\ ret.val.t = "SemVer"
                /\ ret.val = SemVer(args[1], args[2]).val
                /\ ret.val.raw = args[1].str

\* a string within the length limit that matches the grammar and whose
\* construction fails (a field above MAX_SAFE_INTEGER) has been parsed
C2_Witness ==
    /\ ParseDone
    /\ args[1].t = "string"
    /\ Len(args[1].str) <= MAX_LENGTH
    /\ Test(FULL, args[1].str)
    /\ SemVer(args[1], args[2]).kind = "throw"
    /\ ret = Return(NULL)

(***************************************************************************)
(* compare                                                                 *)
(***************************************************************************)
\* the main versions that differ from 0.0.0 in at most one field
CompareMains ==
    {<<0, 0, 0>>} \cup {<<n, 0, 0>> : n \in Nums} \cup {<<0, n, 0>> : n \in Nums}
        \cup {<<0, 0, n>> : n \in Nums}

\* prerelease tags: numbers, words, a number that is kept as a string, and
\* proper prefixes of one another
ComparePre ==
    { <<"0">>,
      <<"2">>,
      <<"1", "0">>,
      MaxSafeText,
      <<"a">>,
      alpha,
      beta,
      <<"B", "e", "t", "a">>,
      <<"1", "0", "a">>,
      alpha \o <<".", "1">>,
      alpha \o <<".", "1", "0">>,
      alpha \o <<".">> \o beta,
      alpha \o <<".", "1", ".", "0">> }

CompareTexts ==
    {VersionText(Dec(t[1]), Dec(t[2]), Dec(t[3]), pre, <<>>) :
        t \in CompareMains, pre \in {<<>>, alpha}}
      \cup {VersionText(Dec(1), Dec(0), Dec(0), pre, <<>>) : pre \in ComparePre}
      \cup {VersionText(Dec(1), Dec(0), Dec(0), pre, <<"b">>) : pre \in {<<>>, alpha}}
      \cup {<<"v", "0", ".", "1", ".", "0">>}

CompareInputs == {JsString(t) : t \in CompareTexts}

InitCompare ==
    /\ fn = "compare"
    /\ args \in {<<a, b, NoOptions>> : a \in CompareInputs, b \in CompareInputs}
    /\ pc = "call"
    /\ ret = Pending

CompareCall == fn = "compare" /\ Finish(compare(args[1], args[2], args[3]))

NextCompare == CompareCall

SpecCompare == InitCompare /\ [][NextCompare]_vars

CompareDone == pc = "done" /\ fn = "compare"

\* compare on every pair of the enumerated versions
Order ==
    [p \in CompareInputs \X CompareInputs |-> compare(p[1], p[2], NoOptions).val]

AllDigits(t) == t # <<>> /\ \A i \in 1..Len(t) : t[i] \in Digit

Lexically(x, y) ==
    \E k \in 1..(Len(y)) :
        /\ \A j \in 1..(k - 1) : j <= Len(x) /\ x[j] = y[j]
        /\ k > Len(x) \/ CharCode(x[k]) < CharCode(y[k])

IdBefore(x, y) ==
    IF AllDigits(x) /\ AllDigits(y) THEN NumLess(ToNumberAcc(x, Num(0)), ToNumberAcc(y, Num(0)))
    ELSE IF AllDigits(x) THEN TRUE
    ELSE IF AllDigits(y) THEN FALSE
    ELSE Lexically(x, y)

\* the dot-separated identifiers of the prerelease of a version text
\* M.m.p[-pre][+build]
PreOf(t) ==
    LET plus == {i \in 1..Len(t) : t[i] = "+"}
        head == IF plus = {} THEN t ELSE SubSeq(t, 1, Least(plus) - 1)
        dash == {i \in 1..Len(head) : head[i] = "-"}
    IN  IF dash = {} THEN <<>>
        ELSE SplitChar(SubSeq(head, Least(dash) + 1, Len(head)), ".")

MainOf(t) ==
    LET stop == {i \in 1..Len(t) : t[i] \in {"-", "+"}}
        head == IF stop = {} THEN t ELSE SubSeq(t, 1, Least(stop) - 1)
    IN  IF head # <<>> /\ head[1] = "v" THEN Tail(head) ELSE head

\* x precedes y as prerelease identifier lists
PreBefore(x, y) ==
    \/ x # <<>> /\ y = <<>>
    \/ /\ x # <<>>
       /\ y # <<>>
       /\ \E k \in 1..Len(y) :
            /\ \A j \in 1..(k - 1) : j <= Len(x) /\ x[j] = y[j]
            /\ k > Len(x) \/ (x[k] # y[k] /\ IdBefore(x[k], y[k]))

SatisfiesCall == fn = "satisfies" /\ Finish(satisfies(args[1], args[2], args[3]))

SatisfiesDone == pc = "done" /\ fn = "satisfies"

\* the versions M.m.p without prerelease and build
PlainTexts == {VersionText(Dec(M), Dec(m), Dec(p), <<>>, <<>>) : M \in Nums, m \in Nums, p \in Nums}

PlainVersions == {JsString(t) : t \in PlainTexts}

\* the fields of a text M, M.m or M.m.p as naturals, -1 for x, X and *
FieldOf(t) == IF t \in {<<"x">>, <<"X">>, <<"*">>} THEN -1 ELSE ToNumberAcc(t, Num(0)).lo

Fields(t) == LET parts == SplitChar(t, ".") IN [i \in 1..Len(parts) |-> FieldOf(parts[i])]

\* the order of two triples of naturals, by the first field that differs
TripleLess(a, b) ==
    \/ a[1] < b[1]
    \/ a[1] = b[1] /\ a[2] < b[2]
    \/ a[1] = b[1] /\ a[2] = b[2] /\ a[3] < b[3]

\* lo <= v < hi
Within(v, lo, hi) == ~TripleLess(v, lo) /\ TripleLess(v, hi)

(***************************************************************************)
(* satisfies on caret ranges                                               *)
(***************************************************************************)
CaretRanges ==
    {<<"^">> \o t : t \in PlainTexts}
      \cup {<<"^">> \o Dec(M) : M \in Nums}
      \cup {<<"^">> \o Dec(M) \o <<".", "x">> : M \in Nums}

InitCaret ==
    /\ fn = "satisfies"
    /\ args \in {<<v, JsString(r), NoOptions>> : v \in PlainVersions, r \in CaretRanges}
    /\ pc = "call"
    /\ ret = Pending

NextCaret == SatisfiesCall

SpecCaret == InitCaret /\ [][NextCaret]_vars

\* the exclusive upper bound the claim gives the caret range on M.m.p
CaretNext(r) ==
    IF r[1] > 0 THEN <<r[1] + 1, 0, 0>>
    ELSE IF r[2] > 0 THEN <<0, r[2] + 1, 0>>
    ELSE <<0, 0, r[3] + 1>>

PartialTexts ==
    {Dec(M) \o Dot \o Dec(m) : M \in Nums, m \in Nums}
      \cup {Dec(M) \o Dot \o Dec(m) \o <<".", "x">> : M \in Nums, m \in Nums}
      \cup {Dec(M) : M \in Nums}

TildeRanges ==
    {<<"~">> \o t : t \in PlainTexts \cup PartialTexts}
      \cup {<<"~", ">">> \o t : t \in PartialTexts}
      \cup {<<"~", ">">> \o VersionText(Dec(M), Dec(m), Dec(0), <<>>, <<>>) :
              M \in Nums, m \in Nums}

InitTilde ==
    /\ fn = "satisfies"
    /\ args \in {<<v, JsString(r), NoOptions>> : v \in PlainVersions, r \in TildeRanges}
    /\ pc = "call"
    /\ ret = Pending

NextTilde == SatisfiesCall

SpecTilde == InitTilde /\ [][NextTilde]_vars

\* the text of a tilde range after its "~" or "~>"
TildeBody(t) == IF Len(t) > 1 /\ t[2] = ">" THEN Tail(Tail(t)) ELSE Tail(t)

HyphenFull ==
    {VersionText(Dec(M), Dec(m), Dec(1), <<>>, <<>>) : M \in {0, 1}, m \in Nums}

\* partial versions that end a hyphen range: M.m and M
HyphenPartial ==
    {Dec(M) \o Dot \o Dec(m) : M \in {0, 1}, m \in Nums} \cup {Dec(M) : M \in Nums}

Hyphen(a, b) == a \o <<" ", "-", " ">> \o b

HyphenRanges ==
    {Hyphen(a, b) : a \in HyphenFull, b \in HyphenFull}
      \cup {Hyphen(a, b) : a \in HyphenPartial,
                           b \in {<<"1", ".", "1", ".", "1">>, <<"2", ".", "0", ".", "0">>}}
      \cup {Hyphen(a, b) : a \in {<<"0", ".", "0", ".", "1">>, <<"1", ".", "0", ".", "0">>},
                           b \in HyphenPartial}

InitHyphen ==
    /\ fn = "satisfies"
    /\ args \in {<<v, JsString(r), NoOptions>> : v \in PlainVersions, r \in HyphenRanges}
    /\ pc = "call"
    /\ ret = Pending

NextHyphen == SatisfiesCall

SpecHyphen == InitHyphen /\ [][NextHyphen]_vars

\* the two sides of the text "A - B"
HyphenFrom(t) == SubSeq(t, 1, IndexOf(t, "-") - 2)

HyphenTo(t) == SubSeq(t, IndexOf(t, "-") + 2, Len(t))

\* a partial version completed with zeros
ZeroFilled(r) == [i \in 1..3 |-> IF i <= Len(r) THEN r[i] ELSE 0]

XVersions ==
    {JsString(VersionText(Dec(M), Dec(m), Dec(p), <<>>, <<>>)) :
        M \in Nums, m \in Nums, p \in {0, 1}}

XOperators == {<<>>, <<"=">>, <<">">>, <<"<", "=">>, <<">", "=">>, <<"<">>}

\* M.x, M, M.m.x and M.m
XBodies ==
    {Dec(M) \o <<".", "x">> : M \in Nums}
      \cup {Dec(M) : M \in Nums}
      \cup {Dec(M) \o Dot \o Dec(m) \o <<".", "x">> : M \in Nums, m \in Nums}
      \cup {Dec(M) \o Dot \o Dec(m) : M \in Nums, m \in Nums}

\* the same with X and * for x
XSpellings ==
    {Dec(M) \o <<".">> \o <<w>> : M \in Nums, w \in {"X", "*"}}
      \cup {Dec(M) \o Dot \o Dec(m) \o <<".">> \o <<w>> :
              M \in Nums, m \in Nums, w \in {"X", "*"}}

XRanges ==
    {op \o body : op \in XOperators, body \in XBodies}
      \cup XSpellings
      \cup {<<"*">>, <<"x">>, <<>>}

InitXRange ==
    /\ fn = "satisfies"
    /\ args \in {<<v, JsString(r), NoOptions>> : v \in XVersions, r \in XRanges}
    /\ pc = "call"
    /\ ret = Pending

NextXRange == SatisfiesCall

SpecXRange == InitXRange /\ [][NextXRange]_vars

\* the operator a range token starts with, and the rest of the token
XOperator(t) == SubSeq(t, 1, RunEnd({"<", ">", "="}, t, 1) - 1)

XBody(t) == SubSeq(t, RunEnd({"<", ">", "="}, t, 1), Len(t))

\* the interval [lo, hi) of the versions that an X-range body stands for
XLow(r) == IF Len(r) = 1 \/ r[2] < 0 THEN <<r[1], 0, 0>> ELSE <<r[1], r[2], 0>>

XHigh(r) == IF Len(r) = 1 \/ r[2] < 0 THEN <<r[1] + 1, 0, 0>> ELSE <<r[1], r[2] + 1, 0>>

SatValid ==
    {VersionText(Dec(M), Dec(1), Dec(p), pre, <<>>) :
        M \in Nums, p \in {0, 1}, pre \in {<<>>, alpha, alpha \o <<".", "1">>}}
      \cup {<<"v", "1", ".", "1", ".", "0">>, <<"2", ".", "0", ".", "0", "-", "0">>,
            <<"1", ".", "1", ".", "0", "+", "b">>}

\* texts that fail the full-version grammar or are longer than MAX_LENGTH
SatMalformed ==
    { <<>>,
      <<"n", "o", "t", "-", "a", "-", "v", "e", "r", "s", "i", "o", "n">>,
      <<"1", ".", "1">>,
      <<" ", "1", ".", "1", ".", "0">>,
      <<"1", ".", "1", ".", "0", " ">>,
      <<"0", "1", ".", "1", ".", "0">>,
      <<"v">> \o Repeat("1", 300),
      VersionText(Dec(1), Dec(1), Dec(0), <<>>, Repeat("a", MAX_LENGTH - 5)) }

SatVersions == {JsString(t) : t \in SatValid \cup SatMalformed}

SatRanges ==
    { <<>>,
      <<"*">>,
      <<"1", ".", "x">>,
      <<"^", "1", ".", "1", ".", "0">>,
      <<"^", "1", ".", "1", ".", "0", "-", "a", "l", "p", "h", "a">>,
      <<"~", "1", ".", "1", ".", "0", "-", "a", "l", "p", "h", "a", " ", "|", "|", " ",
        "2", ".", "x">>,
      <<">", "=", "1", ".", "0", ".", "0", " ", "<", "2", ".", "0", ".", "0">>,
      <<">", "=", "1", ".", "1", ".", "0", "-", "a", "l", "p", "h", "a", " ",
        "<", "2", ".", "0", ".", "0">>,
      <<">", "1", ".", "0", ".", "0", " ", "<", "1", ".", "1", ".", "1", "-", "b">>,
      <<"<", "2", ".", "0", ".", "0", "-", "1", " ", "|", "|", " ", ">", "2", ".", "1", ".", "0">>,
      <<"1", ".", "1", ".", "0", "-", "a", "l", "p", "h", "a", " ", "-", " ", "2">>,
      <<"=", "1", ".", "1", ".", "1", "-", "a", "l", "p", "h", "a", ".", "1">>,
      <<"n", "o", "t", " ", "a", " ", "r", "a", "n", "g", "e">>,
      <<">">>,
      <<"^", "1", ".", "1", ".", "0", " ", "|", "|", " ", "b", "l", "e", "r", "g">>,
      <<"1", ".", "2", ".", "3", ".", "4">>,
      <<"^">> \o MaxSafeText \o Dot00 }

InitSatisfies ==
    /\ fn = "satisfies"
    /\ args \in {<<v, JsString(r), o>> :
                    v \in SatVersions, r \in SatRanges, o \in {NoOptions, Options(TRUE)}}
    /\ pc = "call"
    /\ ret = Pending

NextSatisfies == SatisfiesCall

SpecSatisfies == InitSatisfies /\ [][NextSatisfies]_vars

\* C1 as stated: satisfies never raises; for every version string that
\* fails the full-version grammar or is longer than MAX_LENGTH, and for
\* every invalid range string, it returns false.
C1_SatisfiesNeverRaises ==
    SatisfiesDone =>
        /\ ret.kind = "return"
        /\ \/ ~Test(FULL, args[1].str)
           \/ Len(args[1].str) > MAX_LENGTH
           \/ Range(args[2], args[3]).kind = "throw"
           => ret = Return(FALSE)

\* the comparator c accepts the version v: v stands to the version of c as
\* the operator of c says
Accepts(c, v) ==
    \/ c.semver = ANY
    \/ /\ c.semver # ANY
       /\ LET order == SemVer_compare(v, c.semver)
          IN  CASE c.operator = <<>> -> order = 0
                [] c.operator = <<">">> -> order > 0
                [] c.operator = <<">", "=">> -> order >= 0
                [] c.operator = <<"<">> -> order < 0
                [] c.operator = <<"<", "=">> -> order <= 0

\* the comparator c has a prerelease at the major.minor.patch of v
Anchors(c, v) ==
    /\ c.semver # ANY
    /\ c.semver.prerelease # <<>>
    /\ <<c.semver.major, c.semver.minor, c.semver.patch>> = <<v.major, v.minor, v.patch>>

\* C6: a version satisfies a range iff in some AND-group every comparator
\* accepts the version and the version has no prerelease, or
\* includePrerelease is set, or a comparator of the group has a prerelease
\* at the version's major.minor.patch.
C6_SatisfiesIff ==
    SatisfiesDone /\ SemVer(args[1], args[3]).kind = "return"
                  /\ Range(args[2], args[3]).kind = "return" =>
        LET v == SemVer(args[1], args[3]).val
            set == Range(args[2], args[3]).val.set
        IN  ret = Return(\E i \in 1..Len(set) :
                            /\ \A j \in 1..Len(set[i]) : Accepts(set[i][j], v)
                            /\ \/ v.prerelease = <<>>
                               \/ args[3].includePrerelease
                               \/ \E j \in 1..Len(set[i]) : Anchors(set[i][j], v))

\* under default options 1.1.1-alpha, which both comparators of
\* ">=1.1.0-alpha <2.0.0" accept, was refused: the prerelease of the range
\* is at another patch
C6_Witness ==
    /\ SatisfiesDone
    /\ ~args[3].includePrerelease
    /\ args[1].str = VersionText(Dec(1), Dec(1), Dec(1), alpha, <<>>)
    /\ args[2].str = GE \o VersionText(Dec(1), Dec(1), Dec(0), alpha, <<>>)
                         \o <<" ", "<", "2", ".", "0", ".", "0">>
    /\ ret = Return(FALSE)
(***************************************************************************)
(* The comparisons and satisfies on versions that differ in their build    *)
(***************************************************************************)
\* versions with and without a prerelease, each without build metadata and
\* with two different builds
BuildTexts ==
    {VersionText(Dec(t[1]), Dec(0), Dec(0), t[2], build) :
        t \in {<<M, <<>>>> : M \in Nums} \cup {<<1, alpha>>},
        build \in {<<>>, <<"b">>, <<"b", ".", "7">>}}

BuildInputs == {JsString(t) : t \in BuildTexts}

BuildRanges ==
    { <<"*">>,
      <<"1", ".", "x">>,
      <<"^", "1", ".", "0", ".", "0", "-", "a", "l", "p", "h", "a">>,
      <<"=", "1", ".", "0", ".", "0">>,
      <<"<", "1", ".", "0", ".", "0">>,
      <<"0", ".", "0", ".", "0", " ", "-", " ", "1", ".", "0", ".", "0">> }

Comparisons == {"compare", "gt", "lt", "eq", "neq", "gte", "lte"}

InitBuild ==
    /\ \/ /\ fn \in Comparisons
          /\ args \in {<<a, b, NoOptions>> : a \in BuildInputs, b \in BuildInputs}
       \/ /\ fn = "satisfies"
          /\ args \in {<<v, JsString(r), o>> :
                          v \in BuildInputs, r \in BuildRanges,
                          o \in {NoOptions, Options(TRUE)}}
    /\ pc = "call"
    /\ ret = Pending

GtCall == fn = "gt" /\ Finish(gt(args[1], args[2], args[3]))

LtCall == fn = "lt" /\ Finish(lt(args[1], args[2], args[3]))

EqCall == fn = "eq" /\ Finish(eq(args[1], args[2], args[3]))

NeqCall == fn = "neq" /\ Finish(neq(args[1], args[2], args[3]))

GteCall == fn = "gte" /\ Finish(gte(args[1], args[2], args[3]))

LteCall == fn = "lte" /\ Finish(lte(args[1], args[2], args[3]))

NextBuild ==
    \/ CompareCall
    \/ GtCall
    \/ LtCall
    \/ EqCall
    \/ NeqCall
    \/ GteCall
    \/ LteCall
    \/ SatisfiesCall

SpecBuild == InitBuild /\ [][NextBuild]_vars

\* the text of a version without its +build suffix
StripBuild(t) ==
    IF \E i \in 1..Len(t) : t[i] = "+" THEN SubSeq(t, 1, IndexOf(t, "+") - 1) ELSE t

\* the other inputs that differ from v in their build only
BuildVariants(v) ==
    {w \in BuildInputs : w # v /\ StripBuild(w.str) = StripBuild(v.str)}

\* the completion of the function named f on the arguments a
Called(f, a) ==
    CASE f = "compare" -> compare(a[1], a[2], a[3])
      [] f = "gt" -> gt(a[1], a[2], a[3])
      [] f = "lt" -> lt(a[1], a[2], a[3])
      [] f = "eq" -> eq(a[1], a[2], a[3])
      [] f = "neq" -> neq(a[1], a[2], a[3])
      [] f = "gte" -> gte(a[1], a[2], a[3])
      [] f = "lte" -> lte(a[1], a[2], a[3])
      [] f = "satisfies" -> satisfies(a[1], a[2], a[3])

StrNumericLiteral ==
    Regex(Cat(<<Bol,
                Alt(<<Cat(<<Opt(Lit("-")),
                            Alt(<<Cat(<<Lit("I"), Lit("n"), Lit("f"), Lit("i"),
                                        Lit("n"), Lit("i"), Lit("t"), Lit("y")>>),
                                  Cat(<<Plus(Chr(Digit)),
                                        Opt(Cat(<<Chr({"e", "E"}), Opt(Lit("-")),
                                                  Plus(Chr(Digit))>>))>>)>>)>>),
                      Cat(<<Lit("0"), Chr({"x", "X"}),
                            Plus(Chr(Digit \cup {"a", "b", "c", "d", "e", "f",
                                                 "A", "B", "C", "D", "E", "F"}))>>),
                      Cat(<<Lit("0"), Chr({"o", "O"}),
                            Plus(Chr({"0", "1", "2", "3", "4", "5", "6", "7"}))>>),
                      Cat(<<Lit("0"), Chr({"b", "B"}), Plus(Chr({"0", "1"}))>>)>>),
                Eol>>), 0)

\* isNaN(v) for undefined, a number or a non-empty string
IsNaN(v) ==
    IF v.t = "number" THEN FALSE
    ELSE IF v.t = "string" THEN ~Test(StrNumericLiteral, v.str)
    ELSE TRUE

\* the release types the switch has a case for
ReleaseTypes ==
    {"premajor", "preminor", "prepatch", "prerelease", "major", "minor", "patch", "pre"}

\* the indices of the prerelease identifiers that are numbers
NumberIndices(prerelease) == {i \in 1..Len(prerelease) : prerelease[i].t = "number"}

\* case "pre", first half: [0] for an empty prerelease, else the last
\* identifier that is a number incremented, or 0 pushed when none is
incPreBumpedAt(prerelease, found) ==
    IF Len(prerelease) = 0 THEN <<JsNumber(Num(0))>>
    ELSE IF found = {} THEN Append(prerelease, JsNumber(Num(0)))
    ELSE [prerelease EXCEPT ![Greatest(found)] = JsNumber(NumInc(@.num))]

incPreBumped(prerelease) == incPreBumpedAt(prerelease, NumberIndices(prerelease))

\* prerelease[1], undefined past the end
SecondOf(prerelease) == IF Len(prerelease) >= 2 THEN prerelease[2] ELSE UNDEFINED

\* case "pre", second half: the identifier, when one is given
incPreIdentified(prerelease, identifier) ==
    IF Falsy(identifier) THEN prerelease
    ELSE IF prerelease[1] = identifier
    THEN IF IsNaN(SecondOf(prerelease))
         THEN <<identifier, JsNumber(Num(0))>>
         ELSE prerelease
    ELSE <<identifier, JsNumber(Num(0))>>

\* case "pre"
incPre(this, identifier) ==
    [this EXCEPT !.prerelease = incPreIdentified(incPreBumped(this.prerelease), identifier)]

\* case "major" with the increment unconditional
incMajorAlways(this) ==
    [this EXCEPT !.major = NumInc(this.major),
                 !.minor = Num(0), !.patch = Num(0), !.prerelease = <<>>]

\* case "major"
incMajor(this) ==
    [this EXCEPT !.major = IF this.minor # Num(0) \/ this.patch # Num(0)
                              \/ Len(this.prerelease) = 0
                           THEN NumInc(this.major) ELSE this.major,
                 !.minor = Num(0), !.patch = Num(0), !.prerelease = <<>>]

\* case "minor"
incMinor(this) ==
    [this EXCEPT !.minor = IF this.patch # Num(0) \/ Len(this.prerelease) = 0
                           THEN NumInc(this.minor) ELSE this.minor,
                 !.patch = Num(0), !.prerelease = <<>>]

\* case "patch"
incPatch(this) ==
    [this EXCEPT !.patch = IF Len(this.prerelease) = 0 THEN NumInc(this.patch)
                           ELSE this.patch,
                 !.prerelease = <<>>]

\* this.format(); this.raw = this.version
incFormatted(this) == [this EXCEPT !.version = format(this), !.raw = format(this)]

\* the cases of the switch for a release type it knows
incSwitch(this, release, identifier) ==
    CASE release = "premajor" ->
           incPre([this EXCEPT !.prerelease = <<>>, !.patch = Num(0), !.minor = Num(0),
                               !.major = NumInc(this.major)], identifier)
      [] release = "preminor" ->
           incPre([this EXCEPT !.prerelease = <<>>, !.patch = Num(0),
                               !.minor = NumInc(this.minor)], identifier)
      [] release = "prepatch" ->
           incPre(incPatch([this EXCEPT !.prerelease = <<>>]), identifier)
      [] release = "prerelease" ->
           incPre(IF Len(this.prerelease) = 0 THEN incPatch(this) ELSE this, identifier)
      [] release = "major" -> incMajor(this)
      [] release = "minor" -> incMinor(this)
      [] release = "patch" -> incPatch(this)
      [] release = "pre" -> incPre(this, identifier)

\* this.inc(release, identifier) with every release type taken as "patch"
SemVer_incAnyRelease(this, release, identifier) ==
    Return(incFormatted(incSwitch(this, "patch", identifier)))

\* this.inc(release, identifier), as a completion: the receiver as the call
\* leaves it, or the error of the default case, which is thrown before any
\* field is assigned
SemVer_inc(this, release, identifier) ==
    IF release \notin ReleaseTypes THEN Throw("invalid increment argument")
    ELSE Return(incFormatted(incSwitch(this, release, identifier)))

\* the receiver after this.inc(release, identifier) has completed as done
SemVer_incThis(this, done) == IF done.kind = "throw" THEN this ELSE done.val

\* .version of the receiver this.inc(...) returns, done its completion
incVersionOf(done) ==
    IF done.kind = "throw" THEN done ELSE Return(JsString(done.val.version))

\* new SemVer(version, options).inc(release, identifier).version from the
\* constructed version on
incMade(made, release, identifier) ==
    IF made.kind = "throw" THEN made
    ELSE incVersionOf(SemVer_inc(made.val, release, identifier))

\* the object passed as version after the call: the receiver of .inc is the
\* object the constructor makes, so no write reaches version
incVersionAfter(version, done) == version

\* inc(version, release, options, identifier), as a completion: a string
\* in the place of options is the identifier
inc(version, release, options, identifier) ==
    IF options.t = "string"
    THEN Caught(incMade(SemVer(version, UNDEFINED), release, options), Return(NULL))
    ELSE Caught(incMade(SemVer(version, options), release, identifier), Return(NULL))
(***************************************************************************)
(* Calls of SemVer.prototype.inc and of inc                                *)
(***************************************************************************)
\* a call of this.inc(release, identifier): args is <<this, release,
\* identifier>>, and the call leaves the receiver in args[1]
SemVer_incDone(done) ==
    /\ pc = "call"
    /\ pc' = "done"
    /\ ret' = done
    /\ args' = [args EXCEPT ![1] = SemVer_incThis(args[1], done)]
    /\ UNCHANGED fn

SemVer_incCall == fn = "SemVer.inc" /\ SemVer_incDone(SemVer_inc(args[1], args[2], args[3]))

\* a call of inc(version, release, options, identifier)
IncDone(done) ==
    /\ pc = "call"
    /\ pc' = "done"
    /\ ret' = done
    /\ args' = [args EXCEPT ![1] = incVersionAfter(args[1], done)]
    /\ UNCHANGED fn

IncCall == fn = "inc" /\ IncDone(inc(args[1], args[2], args[3], args[4]))

x1 == <<"x", "1">>

e3 == <<"1", "e", "3">>

\* prereleases: none, a number, words, a word before a number, before a
\* word, before two numbers and before a word Number() reads as a number,
\* and a number before a word
IncPres ==
    { <<>>, Dec(0), alpha, beta, beta \o Dot \o Dec(1), beta \o Dot \o x1,
      Dec(1) \o Dot \o beta, beta \o Dot \o Dec(1) \o Dot \o Dec(MaxNum),
      beta \o Dot \o e3 }

IncTexts ==
    {VersionText(Dec(M), Dec(m), Dec(p), pre, <<>>) :
        M \in Nums, m \in {0, MaxNum}, p \in {0, MaxNum}, pre \in IncPres}

IncVersions == {SemVer(JsString(t), NoOptions).val : t \in IncTexts}

IncReleases == ReleaseTypes \cup {"fake", ""}

IncIdentifiers == {UNDEFINED, JsString(<<>>), JsString(beta), JsString(Dec(1))}

InitInc ==
    /\ pc = "call"
    /\ ret = Pending
    /\ \/ /\ fn = "SemVer.inc"
          /\ args \in {<<v, r, i>> : v \in IncVersions, r \in IncReleases, i \in IncIdentifiers}
       \/ /\ fn = "inc"
          /\ args \in {<<v, r, o, i>> :
                          v \in {JsString(t) : t \in IncTexts}
                                  \cup {JsString(<<"n", "o", "p", "e">>), NULL}
                                  \cup {w \in IncVersions : w.major = Num(0)},
                          r \in IncReleases,
                          o \in {NoOptions, Options(TRUE), JsString(beta)},
                          i \in {UNDEFINED, JsString(beta)}}

NextInc == SemVer_incCall \/ IncCall

SpecInc == InitInc /\ [][NextInc]_vars

\* the texts of the prerelease identifiers of the version v
PreTexts(v) == [i \in 1..Len(v.prerelease) |-> Text(v.prerelease[i])]

\* the positions of the identifiers that are written with digits only
DigitIndices(texts) == {i \in 1..Len(texts) : AllDigits(texts[i])}

\* a prerelease with its last numeric identifier incremented, or with 0
\* appended when it has none
PreBumped(texts) ==
    IF DigitIndices(texts) = {} THEN Append(texts, Dec(0))
    ELSE [texts EXCEPT ![Greatest(DigitIndices(texts))] =
             NumberToString(Succ(ToNumber(@)))]

Bumped(M, m, p, pre) == [major |-> M, minor |-> m, patch |-> p, pre |-> pre]

\* the bump a release type stands for, on the version v
BumpOf(v, release) ==
    LET M == v.major
        m == v.minor
        p == v.patch
        hasPre == Len(v.prerelease) # 0
        zero == Num(0)
    IN  CASE release = "major" ->
               IF hasPre /\ m = zero /\ p = zero THEN Bumped(M, zero, zero, <<>>)
               ELSE Bumped(Succ(M), zero, zero, <<>>)
          [] release = "minor" ->
               IF hasPre /\ p = zero THEN Bumped(M, m, zero, <<>>)
               ELSE Bumped(M, Succ(m), zero, <<>>)
          [] release = "patch" ->
               IF hasPre THEN Bumped(M, m, p, <<>>) ELSE Bumped(M, m, Succ(p), <<>>)
          [] release = "premajor" -> Bumped(Succ(M), zero, zero, <<Dec(0)>>)
          [] release = "preminor" -> Bumped(M, Succ(m), zero, <<Dec(0)>>)
          [] release = "prepatch" -> Bumped(M, m, Succ(p), <<Dec(0)>>)
          [] release = "prerelease" ->
               IF hasPre THEN Bumped(M, m, p, PreBumped(PreTexts(v)))
               ELSE Bumped(M, m, Succ(p), <<Dec(0)>>)

\* the canonical text of a bump
BumpText(b) ==
    VersionText(NumberToString(b.major), NumberToString(b.minor), NumberToString(b.patch),
                Join(b.pre, Dot), <<>>)

\* the version v is the bump b
IsBump(v, b) ==
    /\ v.major = b.major
    /\ v.minor = b.minor
    /\ v.patch = b.patch
    /\ PreTexts(v) = b.pre
    /\ v.version = BumpText(b)
    /\ v.raw = BumpText(b)

BumpReleases == ReleaseTypes \ {"pre"}

PreReleases == {"pre", "prerelease", "premajor", "preminor", "prepatch"}

\* the prerelease after the numeric bump of one of those release types
PreAfterBump(v, release) ==
    IF release = "pre"
    THEN IF Len(v.prerelease) = 0 THEN <<Dec(0)>> ELSE PreBumped(PreTexts(v))
    ELSE BumpOf(v, release).pre

\* the prerelease the identifier id leaves of the bumped prerelease
PreIdentified(bumped, id) ==
    IF bumped[1] # id THEN <<id, Dec(0)>>
    ELSE IF Len(bumped) < 2 \/ ~AllDigits(bumped[2]) THEN <<id, Dec(0)>>
    ELSE bumped

\* C12: a call of the inc method with an identifier and one of the release
\* types pre, prerelease, premajor, preminor and prepatch leaves the
\* prerelease [identifier, 0] when the first identifier of the bumped
\* prerelease differs from the identifier or the second is no number, and
\* leaves the bumped prerelease when the first equals the identifier and the
\* second is a number
C12_IncIdentifier ==
    [][(fn = "SemVer.inc" /\ args[2] \in PreReleases /\ ~Falsy(args[3]))
          => /\ ret'.kind = "return"
             /\ PreTexts(args'[1]) =
                   PreIdentified(PreAfterBump(args[1], args[2]), args[3].str)]_vars
\* C13 as stated: a release type the switch has no case for makes the inc
\* method and the function inc throw, and leaves the version unchanged
C13_UnknownReleaseThrows ==
    [][(fn \in {"SemVer.inc", "inc"} /\ args[2] \notin ReleaseTypes
           /\ (fn = "inc" => parse(args[1], NoOptions).val # NULL))
          => ret'.kind = "throw" /\ args' = args]_vars

\* C13: a release type the switch has no case for makes the inc method
\* throw, with the receiver unchanged; the function inc catches the error
\* and returns null, with its arguments unchanged
C13_UnknownRelease ==
    [][/\ (fn = "SemVer.inc" /\ args[2] \notin ReleaseTypes)
            => ret'.kind = "throw" /\ args' = args
       /\ (fn = "inc" /\ args[2] \notin ReleaseTypes)
            => ret' = Return(NULL) /\ args' = args]_vars

\* inc("1.0.0", "fake") has returned null
C13_Witness ==
    /\ pc = "done"
    /\ fn = "inc"
    /\ args[1] = JsString(VersionText(Dec(1), Dec(0), Dec(0), <<>>, <<>>))
    /\ args[2] = "fake"
    /\ ret = Return(NULL)
(***************************************************************************)
(* maxSatisfying and minSatisfying (walk.ts.js 1062-1105)                  *)
(***************************************************************************)
\* the callback of versions.forEach for the element v whose test has
\* completed as tested: the running <<max, maxSV>> (<<min, minSV>>), or the
\* error thrown.  better is the result of compare that replaces the running
\* value (-1 in maxSatisfying, 1 in minSatisfying); guarded says that the
\* comparison is behind "maxSV &&".
SatisfyingTaken(run, v, options, tested, better, guarded) ==
    IF tested.kind = "throw" THEN tested
    ELSE IF ~tested.val THEN Return(run)
    ELSE IF Falsy(run[1])
    THEN Return(<<v, SemVer(v, options).val>>)
    ELSE IF guarded /\ run[2] = NULL THEN Return(run)
    ELSE IF SemVer_compare(run[2], SemVer(v, run[2].options).val) = better
    THEN Return(<<v, SemVer(v, options).val>>)
    ELSE Return(run)

\* versions.forEach(...) from element i on, run the completion of the
\* elements before it
RECURSIVE SatisfyingEach(_, _, _, _, _, _, _)
SatisfyingEach(versions, i, rangeObj, options, run, better, guarded) ==
    IF run.kind = "throw" \/ i > Len(versions) THEN run
    ELSE SatisfyingEach(versions, i + 1, rangeObj, options,
             SatisfyingTaken(run.val, versions[i], options,
                             Range_test(rangeObj, versions[i]), better, guarded),
             better, guarded)

\* return max, after the loop
SatisfyingReturn(run) == IF run.kind = "throw" THEN run ELSE Return(run.val[1])

\* the scan from the completion made of new Range(range, options) on
SatisfyingMade(versions, made, options, better, guarded) ==
    IF made.kind = "throw" THEN Return(NULL)
    ELSE SatisfyingReturn(SatisfyingEach(versions, 1, made.val, options,
                                         Return(<<NULL, NULL>>), better, guarded))

\* maxSatisfying with the comparison of minSatisfying
maxSatisfyingLowest(versions, range, options) ==
    SatisfyingMade(versions, Range(range, options), options, 1, TRUE)

\* maxSatisfying(versions, range, options), as a completion
maxSatisfying(versions, range, options) ==
    SatisfyingMade(versions, Range(range, options), options, 0 - 1, TRUE)

\* minSatisfying(versions, range, options), as a completion
minSatisfying(versions, range, options) ==
    SatisfyingMade(versions, Range(range, options), options, 1, FALSE)

(***************************************************************************)
(* Calls of maxSatisfying and minSatisfying                                *)
(***************************************************************************)
MaxSatisfyingCall ==
    fn = "maxSatisfying" /\ Finish(maxSatisfying(args[1], args[2], args[3]))

MinSatisfyingCall ==
    fn = "minSatisfying" /\ Finish(minSatisfying(args[1], args[2], args[3]))

\* the lists have up to MaxList elements
MaxList == 3

ListTexts ==
    { VersionText(Dec(1), Dec(0), Dec(0), <<>>, <<>>),
      VersionText(Dec(1), Dec(2), Dec(0), <<>>, <<>>),
      <<"v">> \o VersionText(Dec(1), Dec(2), Dec(0), <<>>, beta),
      VersionText(Dec(1), Dec(3), Dec(0), alpha, <<>>) }

ListVersions == {JsString(t) : t \in ListTexts}

Lists == UNION {[1..n -> ListVersions] : n \in 0..MaxList}

ListRanges ==
    { <<"^", "1", ".", "0", ".", "0">>,
      <<"<", "1", ".", "0", ".", "0", " ", "|", "|", " ", ">", "1", ".", "1", ".", "0">>,
      <<"n", "o", "t", " ", "a", " ", "r", "a", "n", "g", "e">> }

InitSatisfying ==
    /\ fn \in {"maxSatisfying", "minSatisfying"}
    /\ args \in {<<l, JsString(r), NoOptions>> : l \in Lists, r \in ListRanges}
    /\ pc = "call"
    /\ ret = Pending

NextSatisfying == MaxSatisfyingCall \/ MinSatisfyingCall

SpecSatisfying == InitSatisfying /\ [][NextSatisfying]_vars

\* the elements of the list l that the range accepts, made the completion
\* of its construction
Satisfying(l, made) ==
    IF made.kind = "throw" THEN {}
    ELSE {i \in 1..Len(l) : Range_test(made.val, l[i]).val}

\* toward: the results of compare(x, v) an element x may have against the
\* result v; sat: the satisfying elements
ScanHolds(l, sat, options, result, toward) ==
    /\ result.kind = "return"
    /\ IF sat = {}
       THEN result.val = NULL
       ELSE /\ \E i \in sat : l[i] = result.val
            /\ \A i \in sat : compare(l[i], result.val, options).val \in toward

\* C14: maxSatisfying returns null when the range is invalid or no element
\* of the list satisfies it, and otherwise a satisfying element that no
\* satisfying element is above in compare order; minSatisfying is the
\* mirror image, and neither throws on a list of valid versions
C14_MaxMinSatisfying ==
    pc = "done" =>
       /\ fn = "maxSatisfying" =>
             ScanHolds(args[1], Satisfying(args[1], Range(args[2], args[3])), args[3],
                       ret, {0 - 1, 0})
       /\ fn = "minSatisfying" =>
             ScanHolds(args[1], Satisfying(args[1], Range(args[2], args[3])), args[3],
                       ret, {0, 1})

\* maxSatisfying(["1.0.0", "1.2.0", "1.0.0"], "^1.0.0") has returned "1.2.0",
\* the element in the middle
C14_Witness ==
    /\ pc = "done"
    /\ fn = "maxSatisfying"
    /\ args[1] = << JsString(VersionText(Dec(1), Dec(0), Dec(0), <<>>, <<>>)),
                    JsString(VersionText(Dec(1), Dec(2), Dec(0), <<>>, <<>>)),
                    JsString(VersionText(Dec(1), Dec(0), Dec(0), <<>>, <<>>)) >>
    /\ args[2] = JsString(<<"^", "1", ".", "0", ".", "0">>)
    /\ ret = Return(JsString(VersionText(Dec(1), Dec(2), Dec(0), <<>>, <<>>)))
(***************************************************************************)
(* minVersion (walk.ts.js 1106-1148).  The versions the function can write *)
(* to are kept in a store: a sequence whose first entries are the semver   *)
(* objects of the comparators of the range, in the order of the sets, and  *)
(* whose later entries are the objects the function makes.  A position of  *)
(* the store stands for the identity of an object.                         *)
(***************************************************************************)
\* the comparators of all the sets, in order
AllComparators(range) == Flat(range.set)

\* the store a range starts with
StoreOf(range) == [k \in 1..Len(AllComparators(range)) |-> AllComparators(range)[k].semver]

\* the position of comparator j of set i
RECURSIVE Position(_, _, _)
Position(set, i, j) == IF i = 1 THEN j ELSE Len(set[i - 1]) + Position(set, i - 1, j)

\* the range with the semver objects as the store has them
RangeWith(range, store) ==
    [range EXCEPT !.set =
        [i \in 1..Len(range.set) |->
            [j \in 1..Len(range.set[i]) |->
                [range.set[i][j] EXCEPT !.semver = store[Position(range.set, i, j)]]]]]

\* compver is comparator.semver itself, no clone
minVersionShared(store, k) ==
    IF store[k] = ANY THEN Throw("Invalid Version")
    ELSE Return([store |-> store, at |-> k])

\* const compver = new SemVer(comparator.semver.version): a new object, at
\* a new position; the version of ANY is undefined, which the constructor
\* rejects
minVersionClone(store, k) ==
    IF store[k] = ANY THEN Throw("Invalid Version")
    ELSE Return([store |-> Append(store, SemVer(JsString(store[k].version), UNDEFINED).val),
                 at |-> Len(store) + 1])

\* case ">": the writes to compver
minVersionBump(compver) ==
    incFormatted(IF Len(compver.prerelease) = 0
                 THEN [compver EXCEPT !.patch = NumInc(compver.patch)]
                 ELSE [compver EXCEPT !.prerelease = Append(@, JsNumber(Num(0)))])

\* if (!minver || gt(minver, compver)) minver = compver; minver is a
\* position of the store, 0 for null, and above the completion of gt
minVersionLower(store, minver, at, above) ==
    IF above.kind = "throw" THEN above
    ELSE Return([store |-> store, minver |-> IF above.val THEN at ELSE minver])

minVersionKept(store, minver, at) ==
    IF minver = 0 THEN Return([store |-> store, minver |-> at])
    ELSE minVersionLower(store, minver, at, gt(store[minver], store[at], UNDEFINED))

\* the switch on comparator.operator, compver at position at of the store
minVersionSwitch(store, minver, operator, at) ==
    IF operator = GE \/ operator = <<>> THEN minVersionKept(store, minver, at)
    ELSE IF operator = <<">">>
    THEN minVersionKept([store EXCEPT ![at] = minVersionBump(@)], minver, at)
    ELSE IF operator = LT \/ operator = LE
    THEN Return([store |-> store, minver |-> minver])
    ELSE Throw("Unexpected operation")

\* the callback of comparators.forEach on comparator k, made the completion
\* of the clone
minVersionCloned(minver, operator, made) ==
    IF made.kind = "throw" THEN made
    ELSE minVersionSwitch(made.val.store, minver, operator, made.val.at)

\* the two loops from comparator k on, run the completion so far
RECURSIVE minVersionEach(_, _, _)
minVersionEach(comparators, k, run) ==
    IF run.kind = "throw" \/ k > Len(comparators) THEN run
    ELSE minVersionEach(comparators, k + 1,
             minVersionCloned(run.val.minver, comparators[k].operator,
                              minVersionClone(run.val.store, k)))

\* if (minver && range.test(minver)) return minver; return null, tested the
\* completion of the test
minVersionTested(minver, tested) ==
    IF tested.kind = "throw" THEN tested
    ELSE IF tested.val THEN Return(minver) ELSE Return(NULL)

minVersionFound(range, found) ==
    IF found.minver = 0 THEN Return(NULL)
    ELSE minVersionTested(found.store[found.minver],
                          Range_test(RangeWith(range, found.store),
                                     found.store[found.minver]))

\* a completion together with the store it leaves
Stored(done, store) == [done |-> done, store |-> store]

minVersionScanned(range, run) ==
    IF run.kind = "throw" THEN Stored(run, StoreOf(range))
    ELSE Stored(minVersionFound(range, run.val), run.val.store)

\* minVersion from the second literal on
minVersionSecond(range, minver, tested) ==
    IF tested.kind = "throw" THEN Stored(tested, StoreOf(range))
    ELSE IF tested.val THEN Stored(Return(minver), StoreOf(range))
    ELSE minVersionScanned(range,
             minVersionEach(AllComparators(range), 1,
                            Return([store |-> StoreOf(range), minver |-> 0])))

\* minVersion from the first literal on
minVersionFirst(range, minver, tested, second) ==
    IF tested.kind = "throw" THEN Stored(tested, StoreOf(range))
    ELSE IF tested.val THEN Stored(Return(minver), StoreOf(range))
    ELSE minVersionSecond(range, second, Range_test(range, second))

Zero == SemVer(JsString(<<"0", ".", "0", ".", "0">>), UNDEFINED).val

ZeroPre == SemVer(JsString(<<"0", ".", "0", ".", "0", "-", "0">>), UNDEFINED).val

\* minVersion on the constructed range
minVersionOn(range) == minVersionFirst(range, Zero, Range_test(range, Zero), ZeroPre)

\* minVersion(range, options): its completion, and the store it leaves
minVersionRun(made) ==
    IF made.kind = "throw" THEN Stored(made, <<>>) ELSE minVersionOn(made.val)

\* minVersion(range, options), as a completion
minVersion(range, options) == minVersionRun(Range(range, options)).done
\* the object passed as range after the call: the constructor hands back a
\* Range whose includePrerelease agrees with the options, so the comparators
\* of the store are its own; any other argument is parsed into new objects
minVersionRangeAfter(range, options, run) ==
    IF range.t = "Range" /\ run.store # <<>>
          /\ range.includePrerelease = DefaultOptions(options).includePrerelease
    THEN RangeWith(range, run.store)
    ELSE range

(***************************************************************************)
(* Calls of minVersion                                                     *)
(***************************************************************************)
MinVersionDone(run) ==
    /\ pc = "call"
    /\ pc' = "done"
    /\ ret' = run.done
    /\ args' = [args EXCEPT ![1] = minVersionRangeAfter(args[1], args[2], run)]
    /\ UNCHANGED fn

MinVersionCall == fn = "minVersion" /\ MinVersionDone(minVersionRun(Range(args[1], args[2])))

MinMains == {VersionText(Dec(M), Dec(0), Dec(0), <<>>, <<>>) : M \in Nums}

MinLower == {op \o v : op \in {GE, <<">">>}, v \in MinMains}

MinUpper == {op \o v : op \in {LT, LE}, v \in MinMains}

MinSingles ==
    MinLower \cup MinUpper \cup MinMains
      \cup { <<>>, <<"*">>, <<"1", ".", "x">>, <<"^", "0", ".", "1", ".", "0">>,
             <<">">> \o VersionText(Dec(1), Dec(0), Dec(0), alpha, <<>>),
             <<"<", "0", ".", "0", ".", "0", " ", "*">>,
             <<"n", "o", "t", " ", "a", " ", "r", "a", "n", "g", "e">> }

MinAnds == {a \o Space \o b : a \in MinLower, b \in MinLower \cup MinUpper}

MinOrs ==
    {a \o Space \o b \o <<" ", "|", "|", " ">> \o GE \o c :
        a \in MinLower, b \in MinUpper, c \in MinMains}

MinRanges == MinSingles \cup MinAnds \cup MinOrs

InitMinVersion ==
    /\ fn = "minVersion"
    /\ args \in {<<JsString(r), NoOptions>> : r \in MinRanges}
                  \cup {<<Range(JsString(r), NoOptions).val, o>> :
                           r \in MinLower, o \in {NoOptions, Options(TRUE)}}
    /\ pc = "call"
    /\ ret = Pending

NextMinVersion == MinVersionCall

SpecMinVersion == InitMinVersion /\ [][NextMinVersion]_vars

\* versions to measure the result against: M.0.0 and M.0.1, and two
\* prereleases of 1.0.0
MinCandidates ==
    {SemVer(JsString(t), NoOptions).val :
        t \in {VersionText(Dec(M), Dec(0), Dec(p), <<>>, <<>>) : M \in Nums, p \in {0, 1}}
               \cup {VersionText(Dec(1), Dec(0), Dec(0), pre, <<>>) :
                        pre \in {alpha, alpha \o Dot \o Dec(0)}}}

\* the candidates the constructed range accepts
MinAccepted(made) == {c \in MinCandidates : Range_test(made.val, c).val}

LowestOf(result, accepted) ==
    /\ result.kind = "return"
    /\ IF result.val = NULL THEN accepted = {}
       ELSE /\ result.val.t = "SemVer"
            /\ \A c \in accepted : SemVer_compare(c, result.val) >= 0

\* C15: for a valid range, minVersion returns a version that satisfies the
\* range and that no satisfying version is below, and returns null only
\* when no version satisfies the range
C15_MinVersionLowest ==
    (pc = "done" /\ fn = "minVersion" /\ Range(args[1], args[2]).kind = "return")
       => /\ LowestOf(ret, MinAccepted(Range(args[1], args[2])))
          /\ ret.val # NULL => Range_test(Range(args[1], args[2]).val, ret.val).val

(***************************************************************************)
(* outside, gtr and ltr (walk.ts.js 1159-1235)                             *)
(***************************************************************************)
\* the functions and operators the switch on hilo selects; a function is
\* named by the results of compare it accepts
OutsideGtr ==
    [gtfn |-> {1}, ltefn |-> {0 - 1, 0}, ltfn |-> {0 - 1}, comp |-> <<">">>, ecomp |-> GE]

OutsideLtr ==
    [gtfn |-> {0 - 1}, ltefn |-> {0, 1}, ltfn |-> {1}, comp |-> <<"<">>, ecomp |-> LE]

\* gtfn(a, b, options), ltefn(a, b) or ltfn(a, b, options) on two versions
OutsideCompared(a, holds, b, options) == Compared(compare(a, b, options), holds).val

\* new Comparator(">=0.0.0"), which stands in for the ANY comparator
OutsideAny == Comparator(JsString(GE \o <<"0", ".", "0", ".", "0">>), UNDEFINED).val

\* the body of the loop over the comparators of one set: hl is <<high,
\* low>>, NULL before the first comparator
OutsidePicked(hl, comparator, dir, options) ==
    IF OutsideCompared(comparator.semver, dir.gtfn,
                       (IF hl[1] = NULL THEN comparator ELSE hl[1]).semver, options)
    THEN <<comparator, IF hl[2] = NULL THEN comparator ELSE hl[2]>>
    ELSE IF OutsideCompared(comparator.semver, dir.ltfn,
                            (IF hl[2] = NULL THEN comparator ELSE hl[2]).semver, options)
    THEN <<IF hl[1] = NULL THEN comparator ELSE hl[1], comparator>>
    ELSE <<IF hl[1] = NULL THEN comparator ELSE hl[1],
           IF hl[2] = NULL THEN comparator ELSE hl[2]>>

RECURSIVE OutsideHighLow(_, _, _, _, _)
OutsideHighLow(comparators, j, hl, dir, options) ==
    IF j > Len(comparators) THEN hl
    ELSE OutsideHighLow(comparators, j + 1,
             OutsidePicked(hl, IF comparators[j].semver = ANY THEN OutsideAny
                               ELSE comparators[j],
                           dir, options),
             dir, options)

\* the three tests after the inner loop say that the version is not
\* outside the set
OutsideInside(version, hl, dir, options) ==
    \/ hl[1].operator = dir.comp \/ hl[1].operator = dir.ecomp
    \/ /\ hl[2].operator = <<>> \/ hl[2].operator = dir.comp
       /\ OutsideCompared(version, dir.ltefn, hl[2].semver, UNDEFINED)
    \/ /\ hl[2].operator = dir.ecomp
       /\ OutsideCompared(version, dir.ltfn, hl[2].semver, UNDEFINED)

\* the outer loop from set i on: true at a set without comparators, false
\* at the first set that has the version inside, true after the last set
RECURSIVE OutsideEach(_, _, _, _, _)
OutsideChecked(version, range, i, dir, options, hl) ==
    IF hl[1] = NULL \/ hl[2] = NULL THEN TRUE
    ELSE IF OutsideInside(version, hl, dir, options) THEN FALSE
    ELSE OutsideEach(version, range, i + 1, dir, options)

OutsideEach(version, range, i, dir, options) ==
    IF i > Len(range.set) THEN TRUE
    ELSE OutsideChecked(version, range, i, dir, options,
             OutsideHighLow(range.set[i], 1, <<NULL, NULL>>, dir, options))

OutsideSets(version, range, dir, options) == OutsideEach(version, range, 1, dir, options)

\* outside from the test of satisfies on, satisfied its completion
OutsideSatisfied(version, range, dir, options, satisfied) ==
    IF satisfied.kind = "throw" THEN satisfied
    ELSE IF satisfied.val THEN Return(FALSE)
    ELSE Return(OutsideSets(version, range, dir, options))

\* outside from the two constructions on
OutsideMade(version, range, hilo, options) ==
    IF version.kind = "throw" THEN version
    ELSE IF range.kind = "throw" THEN range
    ELSE IF hilo \notin {">", "<"} THEN Throw("Must provide a hilo val of < or >")
    ELSE OutsideSatisfied(version.val, range.val,
                          IF hilo = ">" THEN OutsideGtr ELSE OutsideLtr, options,
                          satisfies(version.val, range.val, options))

\* outside(version, range, hilo, options), as a completion
outside(version, range, hilo, options) ==
    OutsideMade(SemVer(version, options), Range(range, options), hilo, options)

ltr(version, range, options) == outside(version, range, "<", options)

gtr(version, range, options) == outside(version, range, ">", options)

GtrCall == fn = "gtr" /\ Finish(gtr(args[1], args[2], args[3]))

LtrCall == fn = "ltr" /\ Finish(ltr(args[1], args[2], args[3]))

OutsideCall == fn = "outside" /\ Finish(outside(args[1], args[2], args[3], args[4]))

\* versions M.0.0 and M.1.0, a prerelease and a text that is no version
OutsideVersions ==
    {VersionText(Dec(M), Dec(m), Dec(0), <<>>, <<>>) : M \in Nums, m \in {0, 1}}
       \cup {VersionText(Dec(1), Dec(0), Dec(0), alpha, <<>>), <<"1", ".", "0">>}

\* single comparators, intervals and unions of two intervals
OutsideRanges ==
    MinSingles
       \cup {a \o Space \o b : a \in MinLower, b \in MinUpper}
       \cup {a \o Space \o b \o <<" ", "|", "|", " ">> \o c :
                a \in {GE \o <<"0", ".", "0", ".", "0">>},
                b \in {LT \o v : v \in MinMains}, c \in MinMains}

InitOutside ==
    /\ \/ /\ fn \in {"gtr", "ltr"}
          /\ args \in {<<JsString(v), JsString(r), NoOptions>> :
                          v \in OutsideVersions, r \in OutsideRanges}
                       \cup {<<JsString(v), JsString(r), Options(TRUE)>> :
                                v \in OutsideVersions, r \in MinSingles}
       \/ /\ fn = "outside"
          /\ args \in {<<JsString(v), JsString(r), hilo, NoOptions>> :
                          v \in OutsideVersions, r \in MinUpper,
                          hilo \in {">", "<", "="}}
    /\ pc = "call"
    /\ ret = Pending

NextOutside == GtrCall \/ LtrCall \/ OutsideCall

SpecOutside == InitOutside /\ [][NextOutside]_vars

\* what gtr (toward = 1) or ltr (toward = -1) promises of its result:
\* false for a version the range accepts, and true only for a version on
\* that side of every accepted candidate, so that the call the other way
\* round is false when some candidate is accepted
OutsideHolds(version, made, result, toward, accepted, other) ==
    /\ Range_test(made, version).val => result = FALSE
    /\ result = TRUE => \A c \in accepted : SemVer_compare(version, c) = toward
    /\ (result = TRUE /\ accepted # {}) => other.val = FALSE

\* C16: gtr is true only of a version greater than every version that
\* satisfies the range and ltr only of one less than every such version;
\* both are false of a version that satisfies the range, and they are never
\* both true for a range that some version satisfies
C16_GtrLtrOutside ==
    (pc = "done" /\ fn \in {"gtr", "ltr"} /\ ret.kind = "return")
       => OutsideHolds(SemVer(args[1], args[3]).val, Range(args[2], args[3]).val,
                       ret.val, IF fn = "gtr" THEN 1 ELSE 0 - 1,
                       MinAccepted(Range(args[2], args[3])),
                       IF fn = "gtr" THEN ltr(args[1], args[2], args[3])
                       ELSE gtr(args[1], args[2], args[3]))

(***************************************************************************)
(* The canonical form of a parsed version                                  *)
(***************************************************************************)
\* the text of a version without a leading v
StripV(t) == IF Len(t) > 0 /\ t[1] = "v" THEN Tail(t) ELSE t

\* version is the canonical form of the valid version string s: s without
\* its leading v and its build, a valid version string that parses to
\* itself and that compares equal to s
RoundTrip(s, options, version, again) ==
    /\ version = StripBuild(StripV(s))
    /\ valid(JsString(version), options) = Return(JsString(version))
    /\ again.kind = "return"
    /\ again.val # NULL
    /\ again.val.version = version
    /\ compare(JsString(s), JsString(version), options) = Return(0)

\* C17: the version field of a parsed valid version string is the string
\* without its leading v and its +build, it is a valid version string that
\* parses to the same version field, and compare finds it equal to the
\* string
C17_RoundTrip ==
    (ParseDone /\ args[1].t = "string" /\ ret.kind = "return" /\ ret.val # NULL)
       => RoundTrip(args[1].str, args[2], ret.val.version,
                    parse(JsString(ret.val.version), args[2]))

\* a version string with a leading v, a prerelease and a build has been
\* parsed
C17_Witness ==
    /\ ParseDone
    /\ args[1].str = <<"v", "1", ".", "2", ".", "3", "-", "0", "1", "a", "+", "0", "0", "1">>
    /\ ret.kind = "return"
    /\ ret.val # NULL
    /\ ret.val.version = <<"1", ".", "2", ".", "3", "-", "0", "1", "a">>

(***************************************************************************)
(* The constructor beside parse                                            *)
(***************************************************************************)
SemVerCall == fn = "SemVer" /\ Finish(SemVer(args[1], args[2]))

\* the strings parse is checked on, and a valid version between spaces
ConstructStrings ==
    ParseStrings \cup {JsString(<<" ", " ">> \o VersionText(Dec(1), Dec(0), Dec(0), alpha, <<>>)
                                    \o <<" ">>)}

InitConstruct ==
    /\ fn \in {"SemVer", "parse"}
    /\ args \in {<<v, NoOptions>> : v \in ConstructStrings}
    /\ pc = "call"
    /\ ret = Pending

NextConstruct == SemVerCall \/ ParseCall

SpecConstruct == InitConstruct /\ [][NextConstruct]_vars

\* C18: on a string, new SemVer returns a Version exactly when parse
\* returns one and throws exactly when parse returns null, strings with
\* leading or trailing whitespace included
C18_ConstructorAsParse ==
    (pc = "done" /\ fn = "SemVer" /\ args[1].t = "string")
       => /\ ret.kind = "return" <=> parse(args[1], args[2]).val # NULL
          /\ ret.kind = "throw" <=> parse(args[1], args[2]) = Return(NULL)

(***************************************************************************)
(* Sequences of inc on one version                                         *)
(***************************************************************************)
\* a field is small, or one of the two largest numbers the constructor
\* accepts, or the number after them
ChainNumber(n) ==
    \/ NumLess(n, Num(MaxNum + 1))
    \/ n \in {Pred(MAX_SAFE_INTEGER), MAX_SAFE_INTEGER, Succ(MAX_SAFE_INTEGER)}

\* the versions the caller goes on incrementing
ChainBounded(v) ==
    /\ ChainNumber(v.major) /\ ChainNumber(v.minor) /\ ChainNumber(v.patch)
    /\ Len(v.prerelease) <= 2
    /\ \A i \in 1..Len(v.prerelease) :
          v.prerelease[i].t = "number" => NumLess(v.prerelease[i].num, Num(MaxNum + 1))

\* the caller calls inc on the same object once more
SemVer_incAgain ==
    /\ pc = "done"
    /\ fn = "SemVer.inc"
    /\ ret.kind = "return"
    /\ ChainBounded(args[1])
    /\ \E release \in ReleaseTypes : args' = <<args[1], release, UNDEFINED>>
    /\ pc' = "call"
    /\ ret' = Pending
    /\ UNCHANGED fn

ChainTexts ==
    { VersionText(Dec(0), Dec(0), Dec(0), <<>>, <<>>),
      VersionText(Dec(1), Dec(0), Dec(0), alpha, <<>>),
      VersionText(NumberToString(Pred(MAX_SAFE_INTEGER)), Dec(0), Dec(0), <<>>, <<>>),
      VersionText(Dec(0), Dec(0), MaxSafeText, <<>>, <<>>) }

InitIncChain ==
    /\ fn = "SemVer.inc"
    /\ args \in {<<SemVer(JsString(t), NoOptions).val, release, UNDEFINED>> :
                    t \in ChainTexts, release \in ReleaseTypes}
    /\ pc = "call"
    /\ ret = Pending

NextIncChain == SemVer_incCall \/ SemVer_incAgain

SpecIncChain == InitIncChain /\ [][NextIncChain]_vars

\* a number field is a non-negative integer up to MAX_SAFE_INTEGER
InRange(n) == n.hi >= 0 /\ n.lo >= 0 /\ ~NumLess(MAX_SAFE_INTEGER, n)

\* C19: after its construction and after every sequence of calls of inc, a
\* version has major, minor and patch within 0 .. MAX_SAFE_INTEGER and its
\* version string is accepted again by parse
C19_NumericRange ==
    fn = "SemVer.inc"
       => /\ InRange(args[1].major) /\ InRange(args[1].minor) /\ InRange(args[1].patch)
          /\ parse(JsString(args[1].version), NoOptions).val # NULL

(***************************************************************************)
(* diff (walk.ts.js 532-555)                                               *)
(***************************************************************************)
\* the loop over the keys of v1, which meets major, minor and patch in
\* this order
diffKeys(v1, v2, prefix, defaultResult) ==
    IF v1.major # v2.major THEN JsString(prefix \o <<"m", "a", "j", "o", "r">>)
    ELSE IF v1.minor # v2.minor THEN JsString(prefix \o <<"m", "i", "n", "o", "r">>)
    ELSE IF v1.patch # v2.patch THEN JsString(prefix \o <<"p", "a", "t", "c", "h">>)
    ELSE defaultResult

\* the else branch without the prefix and the default for prereleases
diffParsedNoPrefix(v1, v2) ==
    IF v1 = NULL \/ v2 = NULL THEN NULL ELSE diffKeys(v1, v2, <<>>, NULL)

\* the else branch, from the two parsed versions on
diffParsed(v1, v2) ==
    IF v1 = NULL \/ v2 = NULL THEN NULL
    ELSE IF Len(v1.prerelease) # 0 \/ Len(v2.prerelease) # 0
    THEN diffKeys(v1, v2, <<"p", "r", "e">>,
                  JsString(<<"p", "r", "e", "r", "e", "l", "e", "a", "s", "e">>))
    ELSE diffKeys(v1, v2, <<>>, NULL)

\* diff from the completion of eq(version1, version2, options) on
diffCompared(version1, version2, same) ==
    IF same.kind = "throw" THEN same
    ELSE IF same.val THEN Return(NULL)
    ELSE Return(diffParsed(parse(version1, UNDEFINED).val, parse(version2, UNDEFINED).val))

\* diff(version1, version2, options), as a completion
diff(version1, version2, options) ==
    diffCompared(version1, version2, eq(version1, version2, options))

(***************************************************************************)
(* Comparator.intersects, isSatisfiable and Range.intersects               *)
(* (walk.ts.js 705-735, 805-818, 853-864)                                  *)
(***************************************************************************)
\* satisfies(version, rangeTmp, options) with rangeTmp = new Range(value,
\* options): the constructor inside satisfies returns rangeTmp itself, which
\* was made with the same options
intersectsSatisfies(version, rangeTmp) ==
    IF rangeTmp.kind = "throw" THEN rangeTmp ELSE satisfiesMade(version, rangeTmp)

Increasing(c) == c.operator = GE \/ c.operator = <<">">>

Decreasing(c) == c.operator = LE \/ c.operator = <<"<">>

Inclusive(c) == c.operator = GE \/ c.operator = LE

\* the last statements without the case of one version under two
\* inclusive operators
intersectsOperatorsStrict(this, comp, order) ==
    IF order.kind = "throw" THEN order
    ELSE Return(\/ Increasing(this) /\ Increasing(comp)
                \/ Decreasing(this) /\ Decreasing(comp)
                \/ order.val < 0 /\ Increasing(this) /\ Decreasing(comp)
                \/ order.val > 0 /\ Decreasing(this) /\ Increasing(comp))

\* the last statements, on two comparators that both have an operator;
\* order is the completion of compare(this.semver, comp.semver, options),
\* which cmp with "<" is below 0 of and cmp with ">" above 0 of
intersectsOperators(this, comp, order) ==
    IF order.kind = "throw" THEN order
    ELSE Return(\/ Increasing(this) /\ Increasing(comp)
                \/ Decreasing(this) /\ Decreasing(comp)
                \/ /\ this.semver.version = comp.semver.version
                   /\ Inclusive(this) /\ Inclusive(comp)
                \/ order.val < 0 /\ Increasing(this) /\ Decreasing(comp)
                \/ order.val > 0 /\ Decreasing(this) /\ Increasing(comp))

\* the branches for a comparator without operator: plain is that
\* comparator, version what is tested (this.value or comp.semver) and
\* other the comparator it is tested against
intersectsPlain(plain, version, other, options) ==
    IF plain.value = <<>> THEN Return(TRUE)
    ELSE intersectsSatisfies(version, Range(JsString(other.value), options))

\* intersects past the two checks of its arguments
Comparator_intersectsOn(this, comp, options) ==
    IF this.operator = <<>> \/ comp.operator = <<>>
    THEN intersectsPlain(IF this.operator = <<>> THEN this ELSE comp,
                         IF this.operator = <<>> THEN JsString(this.value) ELSE comp.semver,
                         IF this.operator = <<>> THEN comp ELSE this, options)
    ELSE intersectsOperators(this, comp, compare(this.semver, comp.semver, options))

\* Comparator.prototype.intersects(comp, options), as a completion
Comparator_intersects(this, comp, options) ==
    IF comp.t # "Comparator" THEN Throw("a Comparator is required")
    ELSE Comparator_intersectsOn(this, comp, DefaultOptions(options))

\* the while loop of isSatisfiable: remaining is the copy the pops shorten,
\* test the comparator popped last, and hits[<<a, b>>] the result of
\* a.intersects(b, options)
RECURSIVE isSatisfiableLoop(_, _, _, _)
isSatisfiableLoop(result, remaining, test, hits) ==
    IF ~result \/ Len(remaining) = 0 THEN result
    ELSE isSatisfiableLoop(
             \A i \in 1..Len(remaining) : hits[<<test, remaining[i]>>],
             SubSeq(remaining, 1, Len(remaining) - 1),
             remaining[Len(remaining)],
             hits)

\* isSatisfiable with one round of the loop only
isSatisfiableOnce(comparators, hits) ==
    \A i \in 1..(Len(comparators) - 1) : hits[<<comparators[Len(comparators)], comparators[i]>>]

\* isSatisfiable(comparators, options): the loop runs on comparators.slice()
\* without its last element, which the first pop has taken
isSatisfiable(comparators, hits) ==
    IF Len(comparators) = 0 THEN TRUE
    ELSE isSatisfiableLoop(TRUE, SubSeq(comparators, 1, Len(comparators) - 1),
                           comparators[Len(comparators)], hits)

\* thisComparators.every(... rangeComparators.every(... intersects ...))
intersectsEvery(thisComparators, rangeComparators, hits) ==
    \A i \in 1..Len(thisComparators) : \A j \in 1..Len(rangeComparators) :
       hits[<<thisComparators[i], rangeComparators[j]>>]

\* this.set.some(... range.set.some(...))
intersectsSome(this, range, hits) ==
    \E i \in 1..Len(this.set) :
       /\ isSatisfiable(this.set[i], hits)
       /\ \E j \in 1..Len(range.set) :
             /\ isSatisfiable(range.set[j], hits)
             /\ intersectsEvery(this.set[i], range.set[j], hits)

\* the elements of a list
Members(list) == {list[i] : i \in 1..Len(list)}

\* a.intersects(b, options) for the comparators a and b of the set both
intersectsHits(both, options) ==
    [p \in both \X both |-> Comparator_intersects(p[1], p[2], options).val]

\* Range.prototype.intersects(range, options), as a completion
Range_intersects(this, range, options) ==
    IF range.t # "Range" THEN Throw("a Range is required")
    ELSE Return(intersectsSome(this, range,
                    intersectsHits(Members(AllComparators(this) \o AllComparators(range)),
                                   options)))

(***************************************************************************)
(* Calls on Version, Comparator and Range objects                          *)
(***************************************************************************)
CmpCall == fn = "cmp" /\ Finish(cmp(args[1], args[2], args[3], args[4]))

DiffCall == fn = "diff" /\ Finish(diff(args[1], args[2], args[3]))

Range_testCall == fn = "Range.test" /\ Finish(Range_test(args[1], args[2]))

Comparator_testCall == fn = "Comparator.test" /\ Finish(Comparator_test(args[1], args[2]))

Comparator_intersectsCall ==
    fn = "Comparator.intersects" /\ Finish(Comparator_intersects(args[1], args[2], args[3]))

Range_intersectsCall ==
    fn = "Range.intersects" /\ Finish(Range_intersects(args[1], args[2], args[3]))

FrameVersions ==
    {SemVer(JsString(t), NoOptions).val :
        t \in { VersionText(Dec(1), Dec(0), Dec(0), <<>>, <<>>),
                VersionText(Dec(1), Dec(2), Dec(0), alpha, <<>>),
                VersionText(Dec(2), Dec(0), Dec(0), <<>>, <<"b">>) }}

FrameComparators ==
    {Comparator(JsString(c), NoOptions).val :
        c \in { <<>>, <<"1", ".", "0", ".", "0">>, <<">", "1", ".", "0", ".", "0">>,
                <<"<", "=", "2", ".", "0", ".", "0">> }}

FrameRanges ==
    {Range(JsString(r), NoOptions).val :
        r \in { <<">", "1", ".", "0", ".", "0">>,
                <<">", "=", "1", ".", "0", ".", "0", " ", "<", "2", ".", "0", ".", "0">>,
                <<"1", ".", "x", " ", "|", "|", " ", ">", "2", ".", "0", ".", "0", "-", "0">>,
                <<"<", "1", ".", "0", ".", "0", " ", ">", "2", ".", "0", ".", "0">> }}

FrameOptions == {NoOptions, Options(TRUE)}

InitFrame ==
    /\ \/ /\ fn \in {"compare", "diff"}
          /\ args \in {<<v, w, NoOptions>> : v \in FrameVersions, w \in FrameVersions}
       \/ /\ fn = "cmp"
          /\ args \in {<<v, op, w, NoOptions>> :
                          v \in FrameVersions, w \in FrameVersions,
                          op \in {<<"=", "=", "=">>, <<"<">>, GE, <<"?">>}}
       \/ /\ fn = "satisfies"
          /\ args \in {<<v, r, o>> :
                          v \in FrameVersions, r \in FrameRanges, o \in FrameOptions}
       \/ /\ fn = "Range.test"
          /\ args \in {<<r, v>> : r \in FrameRanges, v \in FrameVersions}
       \/ /\ fn = "Comparator.test"
          /\ args \in {<<c, v>> : c \in FrameComparators, v \in FrameVersions}
       \/ /\ fn = "Comparator.intersects"
          /\ args \in {<<c, d, o>> :
                          c \in FrameComparators, d \in FrameComparators,
                          o \in FrameOptions}
       \/ /\ fn = "Range.intersects"
          /\ args \in {<<r, s, o>> :
                          r \in FrameRanges, s \in FrameRanges, o \in FrameOptions}
       \/ /\ fn \in {"maxSatisfying", "minSatisfying"}
          /\ args \in {<<<<v, w>>, r, NoOptions>> :
                          v \in FrameVersions, w \in FrameVersions, r \in FrameRanges}
       \/ /\ fn = "minVersion"
          /\ args \in {<<r, o>> : r \in FrameRanges, o \in FrameOptions}
       \/ /\ fn = "outside"
          /\ args \in {<<v, r, hilo, NoOptions>> :
                          v \in FrameVersions, r \in FrameRanges, hilo \in {">", "<"}}
       \/ /\ fn = "inc"
          /\ args \in {<<v, release, NoOptions, UNDEFINED>> :
                          v \in FrameVersions, release \in IncReleases}
       \/ /\ fn = "SemVer.inc"
          /\ args \in {<<v, release, i>> :
                          v \in FrameVersions, release \in IncReleases,
                          i \in {UNDEFINED, JsString(beta)}}
    /\ pc = "call"
    /\ ret = Pending

NextFrame ==
    \/ CompareCall
    \/ CmpCall
    \/ DiffCall
    \/ SatisfiesCall
    \/ Range_testCall
    \/ Comparator_testCall
    \/ Comparator_intersectsCall
    \/ Range_intersectsCall
    \/ MaxSatisfyingCall
    \/ MinSatisfyingCall
    \/ MinVersionCall
    \/ OutsideCall
    \/ IncCall
    \/ SemVer_incCall

SpecFrame == InitFrame /\ [][NextFrame]_vars

RECURSIVE sortInsert(_, _, _, _)
sortInsert(sorted, x, k, ord) ==
    IF k = 0 \/ ord[<<sorted[k], x>>] <= 0
    THEN SubSeq(sorted, 1, k) \o <<x>> \o SubSeq(sorted, k + 1, Len(sorted))
    ELSE sortInsert(sorted, x, k - 1, ord)

RECURSIVE sortFrom(_, _, _, _)
sortFrom(list, i, sorted, ord) ==
    IF i > Len(list) THEN sorted
    ELSE sortFrom(list, i + 1, sortInsert(sorted, list[i], Len(sorted), ord), ord)

\* list.sort(comparator), calls the completions of the comparator on the
\* pairs of elements.  A list of fewer than two elements is returned without
\* a call; in a longer one every element is compared at least once, so the
\* sort throws when a call on some pair throws, and then the array is left
\* as it was
sortCompared(list, calls) ==
    IF Len(list) < 2 THEN Return(list)
    ELSE IF \E p \in DOMAIN calls : calls[p].kind = "throw"
    THEN calls[CHOOSE p \in DOMAIN calls : calls[p].kind = "throw"]
    ELSE Return(sortFrom(list, 1, <<>>, [p \in DOMAIN calls |-> calls[p].val]))

\* sort with compare for its comparator
sortIgnoringBuild(list, options) ==
    sortCompared(list, [p \in Members(list) \X Members(list)
                           |-> compare(p[1], p[2], options)])

\* sort(list, options), as a completion
sort(list, options) ==
    sortCompared(list, [p \in Members(list) \X Members(list)
                           |-> compareBuild(p[1], p[2], options)])

\* rsort(list, options), as a completion
rsort(list, options) ==
    sortCompared(list, [p \in Members(list) \X Members(list)
                           |-> compareBuild(p[2], p[1], options)])

\* a call of sort or rsort: the array in args[1] is the one the call
\* returns
SortDone(done) ==
    /\ pc = "call"
    /\ pc' = "done"
    /\ ret' = done
    /\ args' = [args EXCEPT ![1] = IF done.kind = "throw" THEN args[1] ELSE done.val]
    /\ UNCHANGED fn

SortCall == fn = "sort" /\ SortDone(sort(args[1], args[2]))

RsortCall == fn = "rsort" /\ SortDone(rsort(args[1], args[2]))

\* one version with no build, with two builds and with a leading v, its
\* prerelease, and a text that is no version
SortTexts ==
    { VersionText(Dec(1), Dec(0), Dec(0), <<>>, <<>>),
      <<"v">> \o VersionText(Dec(1), Dec(0), Dec(0), <<>>, <<>>),
      VersionText(Dec(1), Dec(0), Dec(0), <<>>, <<"b">>),
      VersionText(Dec(1), Dec(0), Dec(0), <<>>, <<"b", ".", "7">>),
      VersionText(Dec(1), Dec(0), Dec(0), alpha, <<>>),
      <<"n", "o", "p", "e">> }

SortLists == UNION {[1..n -> {JsString(t) : t \in SortTexts}] : n \in 0..MaxList}

InitSort ==
    /\ fn \in {"sort", "rsort"}
    /\ args \in {<<l, NoOptions>> : l \in SortLists}
    /\ pc = "call"
    /\ ret = Pending

NextSort == SortCall \/ RsortCall

SpecSort == InitSort /\ [][NextSort]_vars

\* how often x occurs in list
Count(list, x) == Cardinality({i \in 1..Len(list) : list[i] = x})

\* after is a permutation of before
Permuted(before, after) ==
    /\ Len(after) = Len(before)
    /\ \A i \in 1..Len(before) : Count(after, before[i]) = Count(before, before[i])

\* the texts of one version of which a has no build and b has one
BuildAdded(a, b) ==
    /\ StripV(a) = StripBuild(StripV(b))
    /\ StripV(a) # StripV(b)

\* sorted is in the order sort (toward = -1) or rsort (toward = 1) promises
InOrder(sorted, options, toward) ==
    \A i \in 1..Len(sorted) : \A j \in (i + 1)..Len(sorted) :
       /\ compareBuild(sorted[i], sorted[j], options).val \in {0, toward}
       /\ IF toward < 0 THEN ~BuildAdded(sorted[j].str, sorted[i].str)
          ELSE ~BuildAdded(sorted[i].str, sorted[j].str)

\* C21: on a list of valid versions sort and rsort return the array they
\* were given, reordered in place into a permutation of its elements that is
\* in ascending (sort) or descending (rsort) compareBuild order, a version
\* without build on the low side of the same version with a build
C21_SortOrder ==
    [][ (pc = "call" /\ pc' = "done" /\ fn \in {"sort", "rsort"}
           /\ \A i \in 1..Len(args[1]) : valid(args[1][i], args[2]).val # NULL)
           => /\ ret'.kind = "return"
              /\ ret'.val = args'[1]
              /\ Permuted(args[1], args'[1])
              /\ InOrder(args'[1], args[2], IF fn = "sort" THEN 0 - 1 ELSE 1) ]_vars

\* sort has moved a version with a build behind the same version without
\* one and a prerelease to the front
C21_Witness ==
    /\ pc = "done"
    /\ fn = "sort"
    /\ ret.kind = "return"
    /\ ret.val = args[1]
    /\ [i \in 1..Len(args[1]) |-> args[1][i].str]
          = << VersionText(Dec(1), Dec(0), Dec(0), alpha, <<>>),
               VersionText(Dec(1), Dec(0), Dec(0), <<>>, <<>>),
               VersionText(Dec(1), Dec(0), Dec(0), <<>>, <<"b">>) >>

(***************************************************************************)
(* Calls of diff                                                           *)
(***************************************************************************)
\* versions that differ in one field or more, with and without a
\* prerelease, a leading v, a build, and texts parse rejects
DiffTexts ==
    {VersionText(Dec(M), Dec(m), Dec(p), pre, <<>>) :
        M \in {0, MaxNum}, m \in {0, MaxNum}, p \in {0, MaxNum}, pre \in {<<>>, alpha}}
      \cup { <<"v">> \o VersionText(Dec(0), Dec(0), Dec(0), <<>>, <<>>),
             VersionText(Dec(0), Dec(0), Dec(0), alpha, <<"b">>),
             VersionText(Dec(0), Dec(0), Dec(0), beta, <<>>),
             <<" ">> \o VersionText(Dec(0), Dec(0), Dec(0), <<>>, <<>>),
             <<"n", "o", "p", "e">> }

InitDiff ==
    /\ fn = "diff"
    /\ args \in {<<JsString(a), JsString(b), NoOptions>> : a \in DiffTexts, b \in DiffTexts}
    /\ pc = "call"
    /\ ret = Pending

NextDiff == DiffCall

SpecDiff == InitDiff /\ [][NextDiff]_vars

\* the name of the first of major, minor and patch in which a and b
\* differ, behind "pre" when one of them has a prerelease; "prerelease" when
\* they differ in nothing else
Difference(a, b) ==
    LET prefix == IF a.prerelease # <<>> \/ b.prerelease # <<>> THEN <<"p", "r", "e">>
                  ELSE <<>>
    IN  IF a.major # b.major THEN prefix \o <<"m", "a", "j", "o", "r">>
        ELSE IF a.minor # b.minor THEN prefix \o <<"m", "i", "n", "o", "r">>
        ELSE IF a.patch # b.patch THEN prefix \o <<"p", "a", "t", "c", "h">>
        ELSE <<"p", "r", "e", "r", "e", "l", "e", "a", "s", "e">>

DiffHolds(a, b, result, order, back) ==
    /\ result.kind = "return"
    /\ result.val = NULL <=> order = 0
    /\ result.val # NULL => result.val = JsString(Difference(a, b))
    /\ back = result

\* C22: on two valid versions diff is null exactly when compare finds them
\* equal; otherwise it names the first of major, minor and patch that
\* differs, with "pre" in front when either version has a prerelease, and
\* is "prerelease" when none of the three differs; diff(v2, v1) is the same
C22_DiffNames ==
    (pc = "done" /\ fn = "diff"
        /\ parse(args[1], args[3]).val # NULL /\ parse(args[2], args[3]).val # NULL)
       => DiffHolds(parse(args[1], args[3]).val, parse(args[2], args[3]).val, ret,
                    compare(args[1], args[2], args[3]).val,
                    diff(args[2], args[1], args[3]))

\* diff has named the minor of two versions of which one has a prerelease
C22_Witness ==
    /\ pc = "done"
    /\ fn = "diff"
    /\ args[1].str = VersionText(Dec(0), Dec(MaxNum), Dec(0), alpha, <<>>)
    /\ args[2].str = VersionText(Dec(0), Dec(0), Dec(MaxNum), <<>>, <<>>)
    /\ ret = Return(JsString(<<"p", "r", "e", "m", "i", "n", "o", "r">>))

(***************************************************************************)
(* intersects (walk.ts.js 1242-1246)                                       *)
(***************************************************************************)
\* intersects from the two constructions on: range1.intersects(range2) is
\* called without the options
intersectsMade(range1, range2) ==
    IF range1.kind = "throw" THEN range1
    ELSE IF range2.kind = "throw" THEN range2
    ELSE Range_intersects(range1.val, range2.val, UNDEFINED)

\* intersects(range1, range2, options), as a completion
intersects(range1, range2, options) ==
    intersectsMade(Range(range1, options), Range(range2, options))

IntersectsCall == fn = "intersects" /\ Finish(intersects(args[1], args[2], args[3]))

\* exact versions, bounds, intervals with and without a version between
\* their bounds, a union, the range of all versions and a text that is no
\* range
IntersectsRanges ==
    { <<"*">>,
      VersionText(Dec(1), Dec(0), Dec(0), <<>>, <<>>),
      VersionText(Dec(1), Dec(0), Dec(0), alpha, <<>>),
      GE \o VersionText(Dec(0), Dec(0), Dec(0), <<>>, <<>>),
      GE \o VersionText(Dec(1), Dec(0), Dec(0), <<>>, <<>>),
      <<">">> \o VersionText(Dec(1), Dec(0), Dec(0), <<>>, <<>>),
      GE \o VersionText(Dec(1), Dec(0), Dec(0), alpha, <<>>),
      LT \o VersionText(Dec(1), Dec(0), Dec(0), <<>>, <<>>),
      LE \o VersionText(Dec(1), Dec(0), Dec(0), <<>>, <<>>),
      LT \o VersionText(Dec(2), Dec(0), Dec(0), <<>>, <<>>),
      GE \o VersionText(Dec(1), Dec(0), Dec(0), <<>>, <<>>) \o Space
         \o LT \o VersionText(Dec(2), Dec(0), Dec(0), <<>>, <<>>),
      <<">">> \o VersionText(Dec(0), Dec(0), Dec(0), <<>>, <<>>) \o Space
         \o LT \o VersionText(Dec(1), Dec(0), Dec(0), <<>>, <<>>),
      <<">">> \o VersionText(Dec(2), Dec(0), Dec(0), <<>>, <<>>) \o Space
         \o LT \o VersionText(Dec(1), Dec(0), Dec(0), <<>>, <<>>),
      VersionText(Dec(0), Dec(0), Dec(0), <<>>, <<>>) \o <<" ", "|", "|", " ">>
         \o VersionText(Dec(2), Dec(0), Dec(0), <<>>, <<>>),
      <<"n", "o", "t", " ", "a", " ", "r", "a", "n", "g", "e">> }

InitIntersects ==
    /\ fn = "intersects"
    /\ args \in {<<JsString(r), JsString(s), o>> :
                    r \in IntersectsRanges, s \in IntersectsRanges,
                    o \in {NoOptions, Options(TRUE)}}
    /\ pc = "call"
    /\ ret = Pending

NextIntersects == IntersectsCall

SpecIntersects == InitIntersects /\ [][NextIntersects]_vars

\* the versions looked for in both ranges: releases M.0.0, M.0.1 and
\* M.1.0, and prereleases of 1.0.0 and 1.0.1
ReleaseCandidates ==
    {JsString(VersionText(Dec(M), Dec(t[1]), Dec(t[2]), <<>>, <<>>)) :
        M \in Nums, t \in {<<0, 0>>, <<0, 1>>, <<1, 0>>}}

PrereleaseCandidates ==
    {JsString(VersionText(Dec(1), Dec(0), Dec(p), pre, <<>>)) :
        p \in {0, 1}, pre \in {alpha, beta}}

\* the candidates that satisfy both ranges under the options
InBoth(candidates, range1, range2, options) ==
    {c \in candidates :
        satisfies(c, range1, options).val /\ satisfies(c, range2, options).val}

\* C23: with includePrerelease set, intersects is true of two ranges that
\* one prerelease version satisfies under that option
C23_IntersectsWithPrerelease ==
    (pc = "done" /\ fn = "intersects" /\ args[3].includePrerelease
        /\ ret.kind = "return"
        /\ InBoth(PrereleaseCandidates, args[1], args[2], args[3]) # {})
       => ret.val = TRUE

(***************************************************************************)
(* Calls of Comparator.intersects and Range.intersects                     *)
(***************************************************************************)
\* the lowest version there is
LowestText == VersionText(Dec(0), Dec(0), Dec(0), Dec(0), <<>>)

\* the ANY comparator and every operator before a release, a later release,
\* a prerelease and the lowest version
IntersectingComparators ==
    {Comparator(JsString(c), NoOptions).val :
        c \in {<<>>} \cup
              {op \o v : op \in {<<>>, <<">">>, GE, LT, LE},
                         v \in { VersionText(Dec(1), Dec(0), Dec(0), <<>>, <<>>),
                                 VersionText(Dec(2), Dec(0), Dec(0), <<>>, <<>>),
                                 VersionText(Dec(1), Dec(0), Dec(0), alpha, <<>>),
                                 LowestText }}}

\* a group of three of which the last intersects the two before it, which
\* do not intersect
ThreeText ==
    LT \o VersionText(Dec(1), Dec(0), Dec(0), <<>>, <<>>) \o Space
       \o <<">">> \o VersionText(Dec(2), Dec(0), Dec(0), <<>>, <<>>) \o Space
       \o GE \o VersionText(Dec(0), Dec(0), Dec(0), <<>>, <<>>)

\* the valid ranges above, the group of three, and a prerelease before and
\* behind the ANY comparator
IntersectingRanges ==
    {Range(JsString(r), NoOptions).val :
        r \in (IntersectsRanges \ {<<"n", "o", "t", " ", "a", " ", "r", "a", "n", "g", "e">>})
                 \cup { ThreeText,
                        VersionText(Dec(1), Dec(0), Dec(0), alpha, <<>>) \o <<" ", "*">>,
                        <<"*", " ">> \o VersionText(Dec(1), Dec(0), Dec(0), alpha, <<>>) }}

InitIntersecting ==
    /\ \/ /\ fn = "Comparator.intersects"
          /\ args \in {<<c, d, o>> :
                          c \in IntersectingComparators, d \in IntersectingComparators,
                          o \in {NoOptions, Options(TRUE)}}
       \/ /\ fn = "Range.intersects"
          /\ args \in {<<r, s, o>> :
                          r \in IntersectingRanges, s \in IntersectingRanges,
                          o \in {NoOptions, Options(TRUE)}}
    /\ pc = "call"
    /\ ret = Pending

NextIntersecting == Comparator_intersectsCall \/ Range_intersectsCall

SpecIntersecting == InitIntersecting /\ [][NextIntersecting]_vars

\* the decision table: a lower bound points up, an upper bound down
PointsUp(c) == c.operator \in {GE, <<">">>}

PointsDown(c) == c.operator \in {LE, LT}

DecisionTable(a, b) ==
    \/ a.semver = ANY \/ b.semver = ANY
    \/ PointsUp(a) /\ PointsUp(b)
    \/ PointsDown(a) /\ PointsDown(b)
    \/ /\ a.operator \in {GE, LE} /\ b.operator \in {GE, LE}
       /\ SemVer_compare(a.semver, b.semver) = 0
    \/ PointsUp(a) /\ PointsDown(b) /\ SemVer_compare(a.semver, b.semver) < 0
    \/ PointsDown(a) /\ PointsUp(b) /\ SemVer_compare(b.semver, a.semver) < 0

\* C24: Comparator.intersects is true exactly when one of the two
\* comparators is ANY, or both operators point the same way, or the versions
\* are equal and both operators inclusive, or the operators point opposite
\* ways and the version of the lower bound is below that of the upper bound;
\* it is false in every other case, a comparator with the empty operator and
\* a version included
C24_DecisionTable ==
    (pc = "done" /\ fn = "Comparator.intersects")
       => ret = Return(DecisionTable(args[1], args[2]))

\* a version below every version of a comparator but the lowest, which it
\* is itself, and a version above all of them
OuterVersions ==
    {SemVer(JsString(t), NoOptions).val :
        t \in {LowestText, VersionText(Dec(MaxNum + 1), Dec(0), Dec(0), <<>>, <<>>)}}

\* the versions among vs that the test of both comparators accepts
AcceptedByBoth(a, b, vs) ==
    {v \in vs : Comparator_test(a, v).val /\ Comparator_test(b, v).val}

\* C25: for two comparators whose operators point the same way,
\* Comparator.intersects is true and there is a version that the test of
\* both accepts
C25_SameDirection ==
    (pc = "done" /\ fn = "Comparator.intersects"
        /\ \/ PointsUp(args[1]) /\ PointsUp(args[2])
           \/ PointsDown(args[1]) /\ PointsDown(args[2]))
       => /\ ret = Return(TRUE)
          /\ AcceptedByBoth(args[1], args[2], OuterVersions) # {}

\* every comparator of the group g intersects every comparator before it,
\* which is what the fold from the right asks of every two of them
PairwiseIntersecting(g, options) ==
    \A j \in 1..Len(g) : \A i \in 1..(j - 1) :
       Comparator_intersects(g[j], g[i], options).val

\* every comparator of g1 intersects every comparator of g2
CrossIntersecting(g1, g2, options) ==
    \A i \in 1..Len(g1) : \A j \in 1..Len(g2) :
       Comparator_intersects(g1[i], g2[j], options).val

RangeCall == fn = "Range" /\ Finish(Range(args[1], args[2]))

\* ranges of one group and of two, groups without text, and texts with a
\* token that is no comparator, alone, behind a comparator, in the second
\* group and with a version above MAX_SAFE_INTEGER
ConstructRanges ==
    MinSingles
      \cup { <<" ">>, <<"|", "|">>,
             <<"1", ".", "0", ".", "0", " ", "|", "|">>,
             <<"1", ".", "0", ".", "0", " ", "|", "|", " ", "2", ".", "x">>,
             <<"~", "1", ".", "2">>,
             <<"1", ".", "0", ".", "0", " ", "-", " ", "2", ".", "0", ".", "0">>,
             <<">", "=", "1", ".", "0", ".", "0", " ", "n", "o", "p", "e">>,
             <<"1", ".", "0", ".", "0", " ", "|", "|", " ", "n", "o", "p", "e">>,
             <<"n", "o", "p", "e", " ", "|", "|", " ", "1", ".", "0", ".", "0">>,
             <<">", ">", "1", ".", "0", ".", "0">>,
             GE \o VersionText(TooBigText, Dec(0), Dec(0), <<>>, <<>>),
             <<"1", ".", "0", ".", "0", " ", "|", "|", " ">>
                \o LT \o VersionText(Dec(0), TooBigText, Dec(0), <<>>, <<>>) }

InitRange ==
    /\ fn = "Range"
    /\ args \in {<<JsString(r), o>> : r \in ConstructRanges, o \in {NoOptions, Options(TRUE)}}
    /\ pc = "call"
    /\ ret = Pending

NextRange == RangeCall

SpecRange == InitRange /\ [][NextRange]_vars

\* the texts of the groups of a range, between the || of its text
GroupTexts(raw) == Split(OrBars, raw)

\* the tokens of a group after the rewriting of hyphen ranges, carets,
\* tildes, x-ranges and stars
Tokens(group, options) ==
    Split(Spaces,
        parseComparators(
            SplitChar(
                Join(Split(Spaces,
                         hyphenReplaced(Trim(group), Exec(HYPHENRANGE, Trim(group)))),
                     Space),
                " "),
            options))

\* the range has a group with a token that is no comparator
BadToken(raw, options) ==
    \E i \in 1..Len(GroupTexts(raw)) :
       LET tokens == Tokens(Trim(GroupTexts(raw)[i]), options)
       IN  \E j \in 1..Len(tokens) :
              Comparator(JsString(tokens[j]), options).kind = "throw"

\* a constructed range has a group, every group a comparator, and the
\* group of an empty text the ANY comparator alone
WellFormedRange(range, groups) ==
    /\ range.t = "Range"
    /\ Len(range.set) >= 1
    /\ Len(range.set) = Len(groups)
    /\ \A i \in 1..Len(range.set) :
          /\ Len(range.set[i]) >= 1
          /\ \A j \in 1..Len(range.set[i]) : range.set[i][j].t = "Comparator"
          /\ Trim(groups[i]) = <<>>
                => Len(range.set[i]) = 1 /\ range.set[i][1].semver = ANY

\* C27: a Range that has been constructed has at least one group and every
\* group at least one comparator, the group of an empty text the ANY
\* comparator alone; the construction throws exactly when a group holds a
\* token that, after the rewriting, is no comparator
C27_RangeStructure ==
    (pc = "done" /\ fn = "Range")
       => /\ ret.kind = "throw" <=> BadToken(args[1].str, DefaultOptions(args[2]))
          /\ ret.kind = "return" => WellFormedRange(ret.val, GroupTexts(args[1].str))

\* the construction has thrown on a range whose first group is a version
\* and whose second group is no comparator
C27_Witness ==
    /\ pc = "done"
    /\ fn = "Range"
    /\ args[1].str = <<"1", ".", "0", ".", "0", " ", "|", "|", " ", "n", "o", "p", "e">>
    /\ ret.kind = "throw"

\* the release types that bump without an identifier
BumpTypes == {"major", "minor", "patch", "premajor", "preminor", "prepatch", "prerelease"}

\* the release types that leave a release
ReleaseBumps == {"major", "minor", "patch"}

\* a call of inc with one of these release types is made
BumpStep ==
    /\ fn = "SemVer.inc"
    /\ pc = "call"
    /\ args[2] \in BumpTypes
    /\ args[3] = UNDEFINED
    /\ pc' = "done"

\* C28: every step of a sequence of inc calls on one version, with a
\* release type among major, minor, patch, premajor, preminor, prepatch and
\* prerelease and no identifier, leaves a version that compares as greater
\* than the version before the step, with an empty prerelease after major,
\* minor and patch and a non-empty one after the others
C28_MonotoneBumps ==
    [][BumpStep
         => /\ ret'.kind = "return"
            /\ SemVer_compare(args'[1], args[1]) = 1
            /\ (args[2] \in ReleaseBumps) <=> (args'[1].prerelease = <<>>)]_vars

\* the call the other way round, with the receiver and the argument
\* exchanged
Exchanged ==
    IF fn = "Comparator.intersects" THEN Comparator_intersects(args[2], args[1], args[3])
    ELSE Range_intersects(args[2], args[1], args[3])

\* C29: a.intersects(b) returns what b.intersects(a) returns, for two
\* comparators, ANY and the comparators with the empty operator included,
\* and for two ranges
C29_Symmetric ==
    (pc = "done" /\ fn \in {"Comparator.intersects", "Range.intersects"})
       => ret = Exchanged

\* C30: under the default options, intersects returns true of two ranges
\* that some version without a prerelease satisfies both
C30_CompleteForReleases ==
    (pc = "done" /\ fn = "intersects" /\ args[3] = NoOptions
        /\ InBoth(ReleaseCandidates, args[1], args[2], NoOptions) # {})
       => ret = Return(TRUE)

\* intersects has returned on an interval and a bound that share the
\* release 1.0.0
C30_Witness ==
    /\ pc = "done"
    /\ fn = "intersects"
    /\ args[3] = NoOptions
    /\ args[1].str = GE \o VersionText(Dec(1), Dec(0), Dec(0), <<>>, <<>>) \o <<" ">>
                        \o LT \o VersionText(Dec(2), Dec(0), Dec(0), <<>>, <<>>)
    /\ args[2].str = LE \o VersionText(Dec(1), Dec(0), Dec(0), <<>>, <<>>)
    /\ InBoth(ReleaseCandidates, args[1], args[2], NoOptions) # {}
    /\ ret = Return(TRUE)

====
